---- MODULE Spec2Model ----
(***************************************************************************)
(* A model of vmware-tuner's configuration mutation and recovery code:     *)
(* the backup and manifest store (internal/tuner/backup.go), the GRUB,     *)
(* fstab and network mutators, the parameter merge and the disk topology   *)
(* resolver (internal/tuner/disk.go).                                      *)
(*                                                                         *)
(* Text is modelled as a sequence of atoms.  An atom is a string that the  *)
(* code never looks inside (a word such as "quiet" or "ext4") or one of    *)
(* the single characters the code does look for: " " (white space), "=",   *)
(* ",", "#", the double quote (written "dq"), a digit, "p".  A file's      *)
(* content is a sequence of lines, each a sequence of atoms.               *)
(***************************************************************************)
EXTENDS Integers, Sequences, FiniteSets, TLC

VARIABLES
    fs,        \* the file system: path -> [exists, content, mode]
    dir,       \* the session directory: [created, files: backup name -> file]
    manifest,  \* manifest.json of the session directory
    ro,        \* destinations that could not be opened for writing in restore
    out,       \* what the last handler printed and executed, in order
    ret,       \* what the last handler returned: "none", "nil" or "err"
    hist,      \* history: what the session has seen (for stating the claims)
    run,       \* the tuning run: position, flags, pre-run snapshot
    inp,       \* input of the pure function under check
    res        \* result of the pure function under check

vars == <<fs, dir, manifest, ro, out, ret, hist, run, inp, res>>

----------------------------------------------------------------------------
(* Bounds of the model *)

MaxBackups == 3      \* BackupFile calls in one session
MaxFaults == 1       \* I/O faults met in one session

----------------------------------------------------------------------------
(* Generic helpers on sequences *)

Range(s) == {s[i] : i \in 1..Len(s)}

RECURSIVE Concat(_)
Concat(ss) == IF ss = <<>> THEN <<>> ELSE Head(ss) \o Concat(Tail(ss))

RECURSIVE SumSeq(_)
SumSeq(s) == IF s = <<>> THEN 0 ELSE Head(s) + SumSeq(Tail(s))

IsPrefix(p, s) == Len(p) <= Len(s) /\ SubSeq(s, 1, Len(p)) = p

Drop(s, n) == SubSeq(s, n + 1, Len(s))

\* all orderings of the elements of a finite set, as sequences
Perms(S) == {f \in [1..Cardinality(S) -> S] : \A x \in S : \E i \in DOMAIN f : f[i] = x}

----------------------------------------------------------------------------
(* Paths and files *)

GrubPath == <<"etc", "default", "grub">>
FstabPath == <<"etc", "fstab">>
ServicePath == <<"etc", "systemd", "system", "network-tuning.service">>

Paths == {GrubPath, FstabPath, ServicePath}

\* filepath.Base: the last element of the path
Base(p) == p[Len(p)]

BackupNames == {Base(p) : p \in Paths}

Modes == {420, 384}                          \* 0644, 0600
NoFile == [exists |-> FALSE, content |-> <<>>, mode |-> 0]
File(c, m) == [exists |-> TRUE, content |-> c, mode |-> m]

NoManifest == [exists |-> FALSE, valid |-> FALSE, timestamp |-> "", entries |-> <<>>]

SessionTimestamp == "20060102-150405"

----------------------------------------------------------------------------
(* The backup and manifest store: internal/tuner/backup.go *)

Ev(kind, what) == <<kind, what>>

NoDir == [created |-> FALSE, files |-> [n \in BackupNames |-> NoFile]]

\* Initialize: os.MkdirAll(bm.BackupDir, 0700)
InitializeDir(d) == [d EXCEPT !.created = TRUE]

\* AddEntry: read manifest.json or start a new manifest, append one entry,
\* write it back.  wr is what os.WriteFile does: "ok", "open" (it cannot open
\* the file, which stays as it was) or "short" (it truncates the file and
\* fails before the JSON is complete); with "read" it is os.ReadFile that
\* fails on a manifest that is there, and the write succeeds.
AddEntry(mf, ts, original, backupName, mode, wr) ==
    LET old == IF mf.exists /\ wr # "read"
               THEN IF mf.valid
                    THEN [timestamp |-> mf.timestamp, entries |-> mf.entries]
                    ELSE [timestamp |-> "", entries |-> <<>>]
               ELSE [timestamp |-> ts, entries |-> <<>>]
        entry == [original_path |-> original, backup_path |-> backupName,
                  mode |-> mode]
        new == [exists |-> TRUE, valid |-> TRUE, timestamp |-> old.timestamp,
                entries |-> Append(old.entries, entry)]
    IN  CASE wr = "open" -> [manifest |-> mf, err |-> TRUE]
          [] wr = "short" ->
                [manifest |-> [exists |-> TRUE, valid |-> FALSE,
                               timestamp |-> "", entries |-> <<>>],
                 err |-> TRUE]
          [] OTHER -> [manifest |-> new, err |-> FALSE]

\* a BackupFile that never takes a file for missing
StatNotExistNever(fsv, p) == FALSE

\* BackupFile: os.IsNotExist on the error of os.Stat(filePath)
StatNotExist(fsv, p) == ~fsv[p].exists

\* BackupFile.  fault is the I/O fault met by this call: "none", "copy"
\* (io.Copy fails), "open" or "short" (the manifest write fails).
BackupFile(fsv, d, mf, ts, p, fault) ==
    IF StatNotExist(fsv, p)
    THEN [dir |-> d, manifest |-> mf, ret |-> "nil", out |-> <<>>]
    ELSE IF ~d.created
    THEN [dir |-> d, manifest |-> mf, ret |-> "err", out |-> <<>>]
    ELSE IF fault = "copy"
    THEN [dir |-> [d EXCEPT !.files[Base(p)] =
                      File(<<>>, IF @.exists THEN @.mode ELSE 420)],
          manifest |-> mf, ret |-> "err", out |-> <<>>]
    ELSE LET add == AddEntry(mf, ts, p, Base(p), fsv[p].mode, fault)
         IN  [dir |-> [d EXCEPT !.files[Base(p)] =
                          File(fsv[p].content, fsv[p].mode)],
              manifest |-> add.manifest,
              ret |-> "nil",
              out |-> IF add.err
                      THEN <<Ev("PrintWarning", "Failed to update manifest")>>
                      ELSE <<>>]

\* One entry of the restore loop; copyFails: io.Copy fails on this entry.
RestoreEntry(fsv, d, rov, e, copyFails) ==
    LET src == d.files[e.backup_path]
        info == Ev("PrintInfo", "Restauration")
    IN  IF ~src.exists
        THEN [fs |-> fsv, out |-> <<info, Ev("PrintError", "open backup")>>]
        ELSE IF e.original_path \in rov
        THEN [fs |-> fsv, out |-> <<info, Ev("PrintError", "open destination")>>]
        ELSE IF copyFails
        THEN [fs |-> [fsv EXCEPT ![e.original_path] = File(<<>>, e.mode)],
              out |-> <<info, Ev("PrintError", "copy")>>]
        ELSE [fs |-> [fsv EXCEPT ![e.original_path] = File(src.content, e.mode)],
              out |-> <<info>>]

\* a restore loop that gives up at the first entry it cannot restore
RECURSIVE RestoreEntriesAbort(_, _, _, _, _, _)
RestoreEntriesAbort(entries, i, fsv, d, rov, cf) ==
    IF i > Len(entries)
    THEN [fs |-> fsv, out |-> <<>>]
    ELSE LET step == RestoreEntry(fsv, d, rov, entries[i], i \in cf)
             failed == \E k \in 1..Len(step.out) : step.out[k][1] = "PrintError"
             rest == IF failed THEN [fs |-> step.fs, out |-> <<>>]
                     ELSE RestoreEntriesAbort(entries, i + 1, step.fs, d, rov, cf)
         IN  [fs |-> rest.fs, out |-> step.out \o rest.out]

RECURSIVE RestoreEntries(_, _, _, _, _, _)
RestoreEntries(entries, i, fsv, d, rov, cf) ==
    IF i > Len(entries)
    THEN [fs |-> fsv, out |-> <<>>]
    ELSE LET step == RestoreEntry(fsv, d, rov, entries[i], i \in cf)
             rest == RestoreEntries(entries, i + 1, step.fs, d, rov, cf)
         IN  [fs |-> rest.fs, out |-> step.out \o rest.out]

\* reloads that regenerate the boot loader whether or not its defaults file
\* exists
RestoreReloadsAlways(fsv) ==
    <<Ev("exec", "systemctl daemon-reload"), Ev("exec", "update-grub"),
      Ev("exec", "sysctl --system")>>

\* the reloads after the loop
RestoreReloads(fsv) ==
    <<Ev("exec", "systemctl daemon-reload")>>
    \o (IF fsv[GrubPath].exists THEN <<Ev("exec", "update-grub")>> ELSE <<>>)
    \o <<Ev("exec", "sysctl --system")>>

\* RestoreFromManifest; cf is the set of entry indices whose io.Copy fails.
RestoreFromManifest(fsv, d, mf, rov, cf) ==
    IF ~(d.created /\ mf.exists)
    THEN [fs |-> fsv, ret |-> "err", out |-> <<>>]
    ELSE IF ~mf.valid
    THEN [fs |-> fsv, ret |-> "err", out |-> <<>>]
    ELSE LET r == RestoreEntries(mf.entries, 1, fsv, d, rov, cf)
         IN  [fs |-> r.fs, ret |-> "nil",
              out |-> <<Ev("PrintInfo", "Restauration du backup")>> \o r.out
                      \o RestoreReloads(r.fs)
                      \o <<Ev("PrintSuccess", "Restauration terminee")>>]

----------------------------------------------------------------------------
(* Specification Spec: one backup session.  BackupFile is called on the    *)
(* tracked files in any order while other writers change them, and the     *)
(* session is restored at some point.                                      *)

Orig(p) == <<p>>                      \* what a file holds before the session
Edited == <<<<"edited">>>>            \* what a later write puts there

NoHist == [phase |-> "session",
           first |-> [p \in Paths |-> NoFile],   \* image at the first backup
           calls |-> [p \in Paths |-> 0],        \* successful backups of p
           nb |-> 0, nf |-> 0,
           before |-> [p \in Paths |-> NoFile],  \* files when restore began
           cf |-> {}]                            \* copies that failed in restore

NoRun == [pc |-> "off"]

Init ==
    /\ fs \in [Paths -> {NoFile} \cup {File(Orig(p), 420) : p \in Paths}]
    /\ \A p \in Paths : fs[p].exists => fs[p].content = Orig(p)
    /\ fs[GrubPath].exists /\ fs[FstabPath].exists
    /\ dir = NoDir
    /\ manifest = NoManifest
    /\ ro = {}
    /\ out = <<>>
    /\ ret = "none"
    /\ hist = NoHist
    /\ run = NoRun
    /\ inp = <<>>
    /\ res = <<>>

Initialize ==
    /\ hist.phase = "session"
    /\ ~dir.created
    /\ dir' = InitializeDir(dir)
    /\ ret' = "nil"
    /\ out' = <<>>
    /\ UNCHANGED <<fs, manifest, ro, hist, run, inp, res>>

BackupFaults == {"copy", "open", "short"}

BackupCall(p, fault) ==
    /\ hist.phase = "session"
    /\ hist.nb < MaxBackups
    /\ fault # "none" => /\ hist.nf < MaxFaults
                         /\ fs[p].exists
                         /\ dir.created
    /\ LET r == BackupFile(fs, dir, manifest, SessionTimestamp, p, fault)
           done == fs[p].exists /\ r.ret = "nil"
       IN  /\ dir' = r.dir
           /\ manifest' = r.manifest
           /\ ret' = r.ret
           /\ out' = r.out
           /\ hist' = [hist EXCEPT
                         !.nb = @ + 1,
                         !.nf = IF fault = "none" THEN @ ELSE @ + 1,
                         !.calls[p] = IF done THEN @ + 1 ELSE @,
                         !.first[p] = IF done /\ ~@.exists THEN fs[p] ELSE @]

DoBackupFile(p, fault) ==
    BackupCall(p, fault) /\ UNCHANGED <<fs, ro, run, inp, res>>

\* another writer (a mutator, an administrator) rewrites a tracked file and
\* changes its permission bits
EnvWrite(p) ==
    /\ hist.phase = "session"
    /\ fs[p].content # Edited
    /\ fs' = [fs EXCEPT ![p] = File(Edited, 384)]
    /\ UNCHANGED <<dir, manifest, ro, out, ret, hist, run, inp, res>>

\* RestoreFromManifest is run on the session.  lost: backup copies that have
\* become unreadable; rov: destinations that cannot be opened for writing;
\* cf: entries whose copy fails.
DoRestore(lost, rov, cf) ==
    /\ hist.phase = "session"
    /\ Cardinality(lost) + Cardinality(rov) + Cardinality(cf) <= MaxFaults - hist.nf
    /\ \A n \in lost : dir.files[n].exists
    /\ \A p \in rov : \E i \in 1..Len(manifest.entries) :
                         manifest.entries[i].original_path = p
    /\ \A i \in cf : /\ manifest.entries[i].backup_path \notin lost
                     /\ dir.files[manifest.entries[i].backup_path].exists
                     /\ manifest.entries[i].original_path \notin rov
    /\ (lost # {} \/ rov # {} \/ cf # {})
          => manifest.exists /\ manifest.valid /\ dir.created
    /\ LET d == [dir EXCEPT !.files = [n \in BackupNames |->
                                          IF n \in lost THEN NoFile ELSE @[n]]]
           r == RestoreFromManifest(fs, d, manifest, rov, cf)
       IN  /\ dir' = d
           /\ fs' = r.fs
           /\ ret' = r.ret
           /\ out' = r.out
    /\ ro' = rov
    /\ hist' = [hist EXCEPT !.phase = "restored", !.before = fs, !.cf = cf,
                            !.nf = @ + Cardinality(lost) + Cardinality(rov)
                                     + Cardinality(cf)]
    /\ UNCHANGED <<manifest, run, inp, res>>

Restore ==
    \E lost \in SUBSET {n \in BackupNames : dir.files[n].exists},
       rov \in SUBSET {manifest.entries[i].original_path :
                          i \in 1..Len(manifest.entries)},
       cf \in SUBSET (1..Len(manifest.entries)) : DoRestore(lost, rov, cf)

Next ==
    \/ Initialize
    \/ \E p \in Paths, fault \in {"none"} \cup BackupFaults : DoBackupFile(p, fault)
    \/ \E p \in Paths : EnvWrite(p)
    \/ Restore

Spec == Init /\ [][Next]_vars

----------------------------------------------------------------------------
(* Claims about the backup and manifest store, under Spec *)

Entries == manifest.entries
EntriesFor(p) == {i \in 1..Len(Entries) : Entries[i].original_path = p}
Errors(o) == Cardinality({i \in 1..Len(o) : o[i][1] = "PrintError"})

\* C1: in a session without I/O faults, a path that BackupFile has backed up
\* two or more times has exactly one manifest entry.
C1_ExactlyOneEntry ==
    \A p \in Paths :
        (hist.nf = 0 /\ hist.calls[p] >= 2) => Cardinality(EntriesFor(p)) = 1

\* C2: in a session without I/O faults, the backup copy kept for p holds the
\* bytes p had at the first BackupFile(p) of the session, whatever writes and
\* later BackupFile(p) calls follow.
C2_FirstWriteWinsImage ==
    \A p \in Paths :
        (hist.nf = 0 /\ hist.phase = "session" /\ hist.first[p].exists)
            => /\ dir.files[Base(p)].exists
               /\ dir.files[Base(p)].content = hist.first[p].content

\* C3: after a restore that met no I/O fault, every path that was backed up
\* in the session has the content and the permission bits it had at its
\* (first) BackupFile call.
C3_RoundTrip ==
    (hist.phase = "restored" /\ hist.nf = 0)
        => \A p \in Paths : hist.first[p].exists => fs[p] = hist.first[p]

\* C4: restore is best-effort per entry.  An entry cannot be restored when
\* its backup copy is unreadable, its destination cannot be opened or the
\* copy fails.
CannotRestore(i) ==
    \/ ~dir.files[Entries[i].backup_path].exists
    \/ Entries[i].original_path \in ro
    \/ i \in hist.cf

ManifestReadable == dir.created /\ manifest.exists /\ manifest.valid

\* C4: with k of the n manifest entries impossible to restore, restore
\* returns nil, reports exactly k errors and has restored every other entry
\* (content and permission bits of its backup copy on the original path; for
\* a path with several entries, the last one stands); it returns an error
\* only when the manifest is missing or unparseable, and then changes nothing.
C4_RestoreBestEffort ==
    hist.phase = "restored" =>
        IF ManifestReadable
        THEN /\ ret = "nil"
             /\ Errors(out) = Cardinality({i \in 1..Len(Entries) : CannotRestore(i)})
             /\ \A i \in 1..Len(Entries) :
                    (/\ ~CannotRestore(i)
                     /\ \A j \in EntriesFor(Entries[i].original_path) : j <= i)
                        => fs[Entries[i].original_path]
                             = File(dir.files[Entries[i].backup_path].content,
                                    Entries[i].mode)
             /\ \A p \in Paths :
                    (\A i \in EntriesFor(p) :
                         i \notin hist.cf /\ CannotRestore(i))
                        => fs[p] = hist.before[p]
        ELSE ret = "err" /\ fs = hist.before /\ Errors(out) = 0

\* C4 witness: three entries for three paths, one destination unwritable;
\* the two others are restored over later writes and one error is reported.
C4_Witness ==
    /\ hist.phase = "restored"
    /\ ManifestReadable
    /\ Len(Entries) = 3
    /\ \A p \in Paths : Cardinality(EntriesFor(p)) = 1
    /\ Cardinality(ro) = 1
    /\ Cardinality({i \in 1..3 : CannotRestore(i)}) = 1
    /\ Errors(out) = 1
    /\ ret = "nil"
    /\ \A p \in Paths \ ro : hist.before[p].content = Edited /\ fs[p] = hist.first[p]
    /\ \A p \in ro : fs[p].content = Edited

----------------------------------------------------------------------------
(* The parameter merge of the GRUB mutator: GrubTuner.mergeParams *)

\* strings.Index(s, a): the first position of atom a in s, 0 when absent
RECURSIVE IndexFrom(_, _, _)
IndexFrom(s, a, i) ==
    IF i > Len(s) THEN 0 ELSE IF s[i] = a THEN i ELSE IndexFrom(s, a, i + 1)

Index(s, a) == IndexFrom(s, a, 1)

\* a getKey that takes the whole parameter as its key
getKeyWhole(param) == param

\* getKey: the text before the first "=", or the whole parameter
getKey(param) ==
    IF Index(param, "=") # 0 THEN SubSeq(param, 1, Index(param, "=") - 1) ELSE param

\* paramMap[key] = param
MapPut(m, k, v) == [x \in (DOMAIN m) \cup {k} |-> IF x = k THEN v ELSE m[x]]

\* for _, param := range params { paramMap[getKey(param)] = param }
RECURSIVE MapPutAll(_, _)
MapPutAll(m, params) ==
    IF params = <<>> THEN m
    ELSE MapPutAll(MapPut(m, getKey(Head(params)), Head(params)), Tail(params))

\* "for _, param := range paramMap": Go leaves the order of a map iteration
\* unspecified, so the loop can emit the values in any order.
MapValuesInAnyOrder(m) ==
    {[i \in 1..Cardinality(DOMAIN m) |-> m[ks[i]]] : ks \in Perms(DOMAIN m)}

\* mergeParams(existing, new): the set of slices it can return
mergeParams(existing, new) ==
    MapValuesInAnyOrder(MapPutAll(MapPutAll(<<>>, existing), new))

----------------------------------------------------------------------------
(* Specification SpecMerge: mergeParams on bounded parameter lists *)

MaxParams == 2       \* length of the existing and of the desired list

MergeTokens ==
    { <<"quiet">>, <<"splash">>, <<"quiet", "=">>,
      <<"elevator", "=", "noop">>, <<"elevator", "=", "deadline">>,
      <<"elevator", "=", "noop", "=", "deadline">> }

SeqsUpTo(S, n) == UNION {[1..k -> S] : k \in 0..n}

IdleStore ==
    /\ fs = [p \in Paths |-> NoFile]
    /\ dir = NoDir
    /\ manifest = NoManifest
    /\ ro = {}
    /\ out = <<>>
    /\ ret = "none"
    /\ hist = NoHist

InitMerge ==
    /\ IdleStore
    /\ run = [pc |-> "call"]
    /\ inp \in [existing : SeqsUpTo(MergeTokens, MaxParams),
                desired : SeqsUpTo(MergeTokens, MaxParams)]
    /\ res = <<>>

Merge ==
    /\ run.pc = "call"
    /\ res' \in mergeParams(inp.existing, inp.desired)
    /\ run' = [pc |-> "ret"]
    /\ UNCHANGED <<fs, dir, manifest, ro, out, ret, hist, inp>>

NextMerge == Merge

SpecMerge == InitMerge /\ [][NextMerge]_vars

\* The key of a parameter as the claim words it: the longest prefix that
\* holds no "=".
KeyOf(tok) ==
    LET n == CHOOSE k \in 0..Len(tok) :
                 /\ \A i \in 1..k : tok[i] # "="
                 /\ (k < Len(tok) => tok[k + 1] = "=")
    IN  SubSeq(tok, 1, n)

KeysOf(list) == {KeyOf(list[i]) : i \in 1..Len(list)}

\* the value a list gives to key k: its last parameter with that key
ValueOf(list, k) ==
    list[CHOOSE i \in 1..Len(list) :
             /\ KeyOf(list[i]) = k
             /\ \A j \in (i + 1)..Len(list) : KeyOf(list[j]) # k]

\* C8: the merged list has no two parameters with the same key, holds every
\* key of desired with desired's value, keeps every key that is only in
\* existing with existing's value, and holds nothing else.
C8_MergeNoDupDesiredWins ==
    run.pc = "ret" =>
        /\ \A i, j \in 1..Len(res) : KeyOf(res[i]) = KeyOf(res[j]) => i = j
        /\ \A k \in KeysOf(inp.desired) :
               \E i \in 1..Len(res) : res[i] = ValueOf(inp.desired, k)
        /\ \A k \in KeysOf(inp.existing) \ KeysOf(inp.desired) :
               \E i \in 1..Len(res) : res[i] = ValueOf(inp.existing, k)
        /\ KeysOf(res) = KeysOf(inp.existing) \cup KeysOf(inp.desired)

\* C8 witness: existing [quiet], desired [elevator=noop, quiet] merged into
\* one quiet and one elevator=noop.
C8_Witness ==
    /\ run.pc = "ret"
    /\ inp.existing = << <<"quiet">> >>
    /\ inp.desired = << <<"elevator", "=", "noop">>, <<"quiet">> >>
    /\ Len(res) = 2
    /\ Range(res) = { <<"quiet">>, <<"elevator", "=", "noop">> }

----------------------------------------------------------------------------
(* The disk topology resolver: internal/tuner/disk.go *)

\* a BlockDevice of the lsblk report
Node(name, type, mountpoint, children) ==
    [name |-> name, type |-> type, mountpoint |-> mountpoint, children |-> children]

DigitAtoms == {"0", "1", "2", "3", "4", "5", "6", "7", "8", "9"}

\* regexp \d+ with FindString: the leftmost longest run of digits, <<>> if none
RECURSIVE TakeDigits(_)
TakeDigits(s) ==
    IF s # <<>> /\ Head(s) \in DigitAtoms
    THEN <<Head(s)>> \o TakeDigits(Tail(s))
    ELSE <<>>

RECURSIVE FindDigits(_)
FindDigits(s) ==
    IF s = <<>> THEN <<>>
    ELSE IF Head(s) \in DigitAtoms THEN TakeDigits(s)
    ELSE FindDigits(Tail(s))

\* a TrimPrefix that strips nothing
TrimPrefixNone(s, prefix) == s

\* strings.TrimPrefix
TrimPrefix(s, prefix) == IF IsPrefix(prefix, s) THEN Drop(s, Len(prefix)) ELSE s

\* an extractPartitionNumber that always answers with the fallback
extractPartitionNumberOne(disk, partition) == <<"1">>

extractPartitionNumber(disk, partition) ==
    LET suffix == TrimPrefix(partition, disk)
        clean == IF IsPrefix(<<"p">>, suffix) THEN TrimPrefix(suffix, <<"p">>)
                 ELSE suffix
        match == FindDigits(clean)
    IN  IF match # <<>> THEN match ELSE <<"1">>

Found(disk, part, err) == [disk |-> disk, part |-> part, err |-> err]

ErrRawDisk == "root is on a raw disk without partitions"
ErrLVM == "LVM detected"
ErrNotFound == "root partition not found in disk tree"

\* the inner loops over dev.Children (and each child's children), from child j
RECURSIVE findInChildren(_, _)
findInChildren(dev, j) ==
    IF j > Len(dev.children) THEN Found(<<>>, <<>>, "continue")
    ELSE LET child == dev.children[j]
         IN  IF child.mountpoint = "/"
             THEN Found(dev.name, extractPartitionNumber(dev.name, child.name), "")
             ELSE IF \E k \in 1..Len(child.children) : child.children[k].mountpoint = "/"
             THEN Found(<<>>, <<>>, ErrLVM)
             ELSE findInChildren(dev, j + 1)

\* the outer loop over devices, from device i
RECURSIVE findRootFrom(_, _)
findRootFrom(devices, i) ==
    IF i > Len(devices) THEN Found(<<>>, <<>>, ErrNotFound)
    ELSE LET dev == devices[i]
         IN  IF dev.mountpoint = "/"
             THEN Found(dev.name, <<>>, ErrRawDisk)
             ELSE IF findInChildren(dev, 1).err # "continue"
             THEN findInChildren(dev, 1)
             ELSE findRootFrom(devices, i + 1)

findRootInTree(devices) == findRootFrom(devices, 1)

----------------------------------------------------------------------------
(* Specification SpecDisk: findRootInTree on bounded lsblk reports in      *)
(* which at most one node is mounted at "/".                               *)

MaxDisks == 2        \* top-level devices of a report
MaxChildren == 2     \* children of one top-level device
MaxNest == 2         \* levels of nodes below a child of a top-level device

DiskNameList ==
    << <<"sda">>, <<"nvme", "0", "n", "1">>, <<"sdb">>, <<"mmcblk", "0">> >>

DigitList == <<"1", "2", "3", "4", "5", "6", "7", "8", "9">>

ChildKinds == {"part", "lvm", "crypt"}

\* the name lsblk gives child c of a disk: sda1, nvme0n1p1, or a mapper name
ChildName(dname, kind, c) ==
    CASE kind = "part" ->
            IF dname[Len(dname)] \in DigitAtoms
            THEN dname \o <<"p", DigitList[c]>>
            ELSE dname \o <<DigitList[c]>>
      [] kind = "lvm" -> <<"vg", "0", "-", "root">>
      [] OTHER -> <<"luks", "-", "root">>

\* a chain of len nested nodes, the one at level rootAt mounted at "/"
RECURSIVE Chain(_, _, _)
Chain(level, len, rootAt) ==
    IF level > len THEN <<>>
    ELSE <<Node(<<"vg", "-", "lv", DigitList[level]>>, "lvm",
                IF level = rootAt THEN "/" ELSE "",
                Chain(level + 1, len, rootAt))>>

\* tp: the shape of a report.  tp.root = <<d, c, k>>: "/" is on disk d itself
\* (c = 0), on its child c (k = 0) or k levels below that child; d = 0: no
\* node is mounted at "/".
BuildChild(tp, d, c) ==
    LET onPath == tp.root[1] = d /\ tp.root[2] = c
        kind == IF onPath THEN tp.kind ELSE "part"
        mp == IF onPath /\ tp.root[3] = 0 THEN "/"
              ELSE IF tp.boot /\ c = 1 THEN "/boot" ELSE ""
    IN  Node(ChildName(DiskNameList[d], kind, c), kind, mp,
             IF onPath THEN Chain(1, tp.chain, tp.root[3])
             ELSE IF tp.decoy THEN Chain(1, 1, 0) ELSE <<>>)

BuildDisk(tp, d) ==
    Node(DiskNameList[d], "disk",
         IF tp.root[1] = d /\ tp.root[2] = 0 THEN "/" ELSE "",
         [c \in 1..tp.kids[d] |-> BuildChild(tp, d, c)])

BuildTree(tp) == [d \in 1..tp.n |-> BuildDisk(tp, d)]

TreeShapes ==
    UNION {[n : {n}, kids : [1..n -> 0..MaxChildren],
            root : (0..n) \X (0..MaxChildren) \X (0..MaxNest),
            kind : ChildKinds, chain : 0..MaxNest,
            decoy : BOOLEAN, boot : BOOLEAN] : n \in 1..MaxDisks}

WellFormedShape(tp) ==
    /\ tp.root[1] = 0 => tp.root = <<0, 0, 0>> /\ tp.kind = "part" /\ tp.chain = 0
    /\ tp.root[1] # 0 => tp.root[2] <= tp.kids[tp.root[1]]
    /\ tp.root[2] = 0 => tp.root[3] = 0 /\ tp.kind = "part" /\ tp.chain = 0
    /\ tp.root[3] <= tp.chain

InitDisk ==
    /\ IdleStore
    /\ run = [pc |-> "call"]
    /\ \E tp \in TreeShapes :
          /\ WellFormedShape(tp)
          /\ inp = BuildTree(tp)
    /\ res = <<>>

FindRoot ==
    /\ run.pc = "call"
    /\ res' = findRootInTree(inp)
    /\ run' = [pc |-> "ret"]
    /\ UNCHANGED <<fs, dir, manifest, ro, out, ret, hist, inp>>

NextDisk == FindRoot

SpecDisk == InitDisk /\ [][NextDisk]_vars

\* where "/" is mounted in the report inp
RECURSIVE RootBelow(_)
RootBelow(node) ==
    \E k \in 1..Len(node.children) :
        node.children[k].mountpoint = "/" \/ RootBelow(node.children[k])

RootOnTopLevel == \E i \in 1..Len(inp) : inp[i].mountpoint = "/"

RootNested ==
    \E i \in 1..Len(inp) : \E j \in 1..Len(inp[i].children) :
        RootBelow(inp[i].children[j])

UnsupportedTopology == {ErrRawDisk, ErrLVM}

\* C9: when "/" is on a top-level disk node, or on a node nested at any depth
\* below a disk's child, findRootInTree returns the unsupported-topology
\* error and no usable result.
C9_FailsClosed ==
    (run.pc = "ret" /\ (RootOnTopLevel \/ RootNested))
        => res.err \in UnsupportedTopology

\* C10: findRootInTree returns a result without error only when the node
\* mounted at "/" is a partition that is a direct child of a disk.
C10_OnlyPartitions ==
    (run.pc = "ret" /\ res.err = "")
        => \E i \in 1..Len(inp) :
              /\ inp[i].type = "disk"
              /\ \E j \in 1..Len(inp[i].children) :
                    /\ inp[i].children[j].mountpoint = "/"
                    /\ inp[i].children[j].type = "part"

----------------------------------------------------------------------------
(* Text functions of the Go library, on sequences of atoms *)

WhiteSpace == {" ", "\t", "\r"}

RECURSIVE TrimLeft(_, _)
TrimLeft(s, cutset) ==
    IF s # <<>> /\ Head(s) \in cutset THEN TrimLeft(Tail(s), cutset) ELSE s

RECURSIVE TrimRight(_, _)
TrimRight(s, cutset) ==
    IF s # <<>> /\ s[Len(s)] \in cutset
    THEN TrimRight(SubSeq(s, 1, Len(s) - 1), cutset) ELSE s

\* strings.Trim(s, cutset)
Trim(s, cutset) == TrimRight(TrimLeft(s, cutset), cutset)

\* strings.TrimSpace(s)
TrimSpace(s) == Trim(s, WhiteSpace)

\* strings.HasPrefix(s, prefix)
HasPrefix(s, prefix) == IsPrefix(prefix, s)

\* strings.Contains(s, a) for a one-character a
Contains(s, a) == Index(s, a) # 0

\* strings.Split(s, sep) for a one-character sep: the pieces between the
\* separators, empty pieces included
RECURSIVE Split(_, _)
Split(s, sep) ==
    IF Index(s, sep) = 0 THEN <<s>>
    ELSE <<SubSeq(s, 1, Index(s, sep) - 1)>> \o Split(Drop(s, Index(s, sep)), sep)

\* the first position of s, from i on, that holds white space; Len(s) + 1
\* when there is none
RECURSIVE WordEnd(_, _)
WordEnd(s, i) ==
    IF i > Len(s) \/ s[i] \in WhiteSpace THEN i ELSE WordEnd(s, i + 1)

\* strings.Fields(s): the words of s between runs of white space
RECURSIVE Fields(_)
Fields(s) ==
    LET t == TrimLeft(s, WhiteSpace)
    IN  IF t = <<>> THEN <<>>
        ELSE <<SubSeq(t, 1, WordEnd(t, 1) - 1)>> \o Fields(Drop(t, WordEnd(t, 1) - 1))

\* strings.Join(list, sep)
RECURSIVE Join(_, _)
Join(list, sep) ==
    IF list = <<>> THEN <<>>
    ELSE IF Len(list) = 1 THEN list[1]
    ELSE list[1] \o sep \o Join(Tail(list), sep)

----------------------------------------------------------------------------
(* Reading a file line by line: bufio.Scanner *)

\* bufio.MaxScanTokenSize: the longest line a bufio.Scanner returns is one
\* character shorter
MaxScanTokenSize == 65536

\* the number of characters of an atom; the atoms not listed count as one
\* character, and none of them is long enough to fill a scanner's buffer
AtomLen(a) ==
    CASE a = "x{65536}" -> MaxScanTokenSize
      [] a = "/dev/disk/by-uuid/0a1b2c3d-0a1b-0a1b-0a1b-0a1b2c3d4e5f" -> 54
      [] a \in {"/dev/sda1", "/dev/sdb1"} -> 9
      [] a = "nodiratime" -> 10
      [] a = "defaults" -> 8
      [] a \in {"noatime", "discard", "comment"} -> 7
      [] a = "commit" -> 6
      [] a = "/data" -> 5
      [] a \in {"ext4", "none", "swap"} -> 4
      [] a = "xfs" -> 3
      [] a \in {"sw", "60", "30"} -> 2
      [] OTHER -> 1

StrLen(s) == SumSeq([i \in 1..Len(s) |-> AtomLen(s[i])])

\* bufio.ScanLines: a line, without the carriage return before its newline
ScanLine(line) ==
    IF line # <<>> /\ line[Len(line)] = "\r"
    THEN SubSeq(line, 1, Len(line) - 1) ELSE line

\* the lines the scanner returns
ScanLines(content) == [i \in 1..Len(content) |-> ScanLine(content[i])]

\* scanner.Err(): bufio.ErrTooLong when a line does not fit the buffer
ScanErr(content) ==
    \E i \in 1..Len(content) : StrLen(content[i]) >= MaxScanTokenSize

----------------------------------------------------------------------------
(* The GRUB mutator: GrubTuner *)

MaxBootParams == 2   \* how many of the ten VMware boot parameters are merged

AllVMwareBootParams ==
    << <<"elevator", "=", "noop">>,
       <<"transparent_hugepage", "=", "madvise">>,
       <<"vsyscall", "=", "emulate">>,
       <<"clocksource", "=", "tsc">>,
       <<"tsc", "=", "reliable">>,
       <<"intel_idle.max_cstate", "=", "0">>,
       <<"processor.max_cstate", "=", "1">>,
       <<"nmi_watchdog", "=", "0">>,
       <<"pcie_aspm", "=", "off">>,
       <<"nvme_core.default_ps_max_latency_us", "=", "0">> >>

VMwareBootParams ==
    SubSeq(AllVMwareBootParams, 1,
           IF MaxBootParams < Len(AllVMwareBootParams)
           THEN MaxBootParams ELSE Len(AllVMwareBootParams))

CmdlineKey == "GRUB_CMDLINE_LINUX_DEFAULT"

\* the atoms that the class [A-Z_]+ matches whole
UpperNames == {CmdlineKey, "GRUB_TIMEOUT", "GRUB_DEFAULT"}

\* ParseGrubConfig, the key=value map: a line that is not a comment, holds a
\* "=" and whose trimmed text matches ^([A-Z_]+)=(.*)$ sets config[key] to
\* the value with its surrounding double quotes trimmed; later lines win.
RECURSIVE ParseGrubLines(_, _)
ParseGrubLines(lines, config) ==
    IF lines = <<>> THEN config
    ELSE LET line == Head(lines)
             t == TrimSpace(line)
             skip == HasPrefix(t, <<"#">>) \/ ~Contains(line, "=")
             matches == Len(t) >= 2 /\ t[1] \in UpperNames /\ t[2] = "="
         IN  ParseGrubLines(Tail(lines),
                 IF ~skip /\ matches
                 THEN MapPut(config, t[1], Trim(Drop(t, 2), {"dq"}))
                 ELSE config)

ParseGrubConfig(content) == ParseGrubLines(content, <<>>)

\* config["GRUB_CMDLINE_LINUX_DEFAULT"]: the empty string when absent
CurrentCmdline(content) ==
    LET config == ParseGrubConfig(content)
    IN  IF CmdlineKey \in DOMAIN config THEN config[CmdlineKey] ELSE <<>>

\* parseParams
parseParams(cmdline) == IF cmdline = <<>> THEN <<>> ELSE Fields(cmdline)

\* a rewrite that puts the new command line on every line that holds the key,
\* commented or not
updateGrubLinesAnywhere(lines, newCmdline) ==
    [i \in 1..Len(lines) |->
        IF Contains(lines[i], CmdlineKey)
        THEN <<CmdlineKey, "=", "dq">> \o newCmdline \o <<"dq">>
        ELSE lines[i]]

\* updateGrubLines
updateGrubLines(lines, newCmdline) ==
    [i \in 1..Len(lines) |->
        IF HasPrefix(TrimSpace(lines[i]), <<CmdlineKey, "=">>)
        THEN <<CmdlineKey, "=", "dq">> \o newCmdline \o <<"dq">>
        ELSE lines[i]]

\* os.WriteFile(path, content, 0644): the permission bits are used only when
\* the file is created
WriteFile(fsv, p, content) ==
    [fsv EXCEPT ![p] = File(content, IF @.exists THEN @.mode ELSE 420)]

\* a mutator that takes every BackupFile result for a success
BackupFailedNever(b) == FALSE

\* "if err := backup.BackupFile(path); err != nil" in the mutators
BackupFailed(b) == b.ret = "err"

\* GrubTuner.Apply.  bfault is the I/O fault its BackupFile call meets;
\* newParams is the slice mergeParams returned in this
\* execution; updateGrubOk tells whether Distro.UpdateGrub succeeds.
GrubTunerApply(fsv, d, mf, dryRun, newParams, updateGrubOk, bfault) ==
    LET step == Ev("PrintStep", "Optimizing GRUB boot parameters")
        same == [fs |-> fsv, dir |-> d, manifest |-> mf]
    IN  IF ~fsv[GrubPath].exists
        THEN same @@ [ret |-> "err", out |-> <<step>>]
        ELSE IF ScanErr(fsv[GrubPath].content)
        THEN same @@ [ret |-> "err", out |-> <<step>>]
        ELSE
        LET lines == ScanLines(fsv[GrubPath].content)
            currentCmdline == CurrentCmdline(lines)
            newCmdline == Join(newParams, <<" ">>)
            b == BackupFile(fsv, d, mf, SessionTimestamp, GrubPath, bfault)
            written == WriteFile(fsv, GrubPath, updateGrubLines(lines, newCmdline))
        IN  IF currentCmdline = newCmdline
            THEN same @@ [ret |-> "nil",
                          out |-> <<step, Ev("PrintSuccess",
                                      "GRUB boot parameters already optimized")>>]
            ELSE IF dryRun
            THEN same @@ [ret |-> "nil",
                          out |-> <<step, Ev("PrintInfo", "Would update")>>]
            ELSE IF BackupFailed(b)
            THEN [fs |-> fsv, dir |-> b.dir, manifest |-> b.manifest,
                  ret |-> "err", out |-> <<step, Ev("BackupFile", b.ret)>> \o b.out]
            ELSE [fs |-> written, dir |-> b.dir, manifest |-> b.manifest,
                  ret |-> IF updateGrubOk THEN "nil" ELSE "err",
                  out |-> <<step, Ev("BackupFile", b.ret)>> \o b.out
                          \o <<Ev("write", "grub"), Ev("exec", "update-grub")>>
                          \o (IF updateGrubOk
                              THEN <<Ev("PrintWarning", "REBOOT REQUIRED")>>
                              ELSE <<Ev("PrintWarning", "Failed to update GRUB")>>)]

----------------------------------------------------------------------------
(* The mount-table mutator: FstabTuner *)

\* the verb %-Ns: s, padded with spaces on the right to N characters
PadRight(s, n) ==
    s \o [i \in 1..(IF StrLen(s) < n THEN n - StrLen(s) ELSE 0) |-> " "]

CommentEntry(line) ==
    [Device |-> <<>>, MountPoint |-> <<>>, FSType |-> <<>>, Options |-> <<>>,
     Dump |-> <<>>, Pass |-> <<>>, Comment |-> line, IsComment |-> TRUE]

\* ParseFstab, one line
ParseFstabLine(line) ==
    LET trimmed == TrimSpace(line)
        fields == Fields(trimmed)       \* regexp \s+ split of the trimmed line
    IN  IF trimmed = <<>> \/ HasPrefix(trimmed, <<"#">>) THEN CommentEntry(line)
        ELSE IF Len(fields) < 4 THEN CommentEntry(line)
        ELSE [Device |-> fields[1], MountPoint |-> fields[2],
              FSType |-> fields[3], Options |-> Split(fields[4], ","),
              Dump |-> IF Len(fields) > 4 THEN fields[5] ELSE <<"0">>,
              Pass |-> IF Len(fields) > 5 THEN fields[6] ELSE <<"0">>,
              Comment |-> <<>>, IsComment |-> FALSE]

\* ParseFstab, when the scanner reaches the end of the file
ParseFstab(content) ==
    [i \in 1..Len(content) |-> ParseFstabLine(ScanLine(content[i]))]

\* an OptimizeEntry that never finds a commit= option
hasCommitNever(options) == FALSE

\* OptimizeEntry: is there an option with the prefix "commit="
hasCommit(options) == \E opt \in options : HasPrefix(opt, <<"commit", "=">>)

\* OptimizeEntry: the option map after the removals and additions
OptimizedOptions(entry) ==
    LET options == Range(entry.Options)
        kept == options \ {<<"discard">>}
        perf == kept \cup {<<"noatime">>, <<"nodiratime">>}
    IN  IF hasCommit(perf) THEN perf ELSE perf \cup {<<"commit", "=", "60">>}

\* OptimizeEntry: does it report the entry modified
OptimizeModifies(entry) ==
    LET options == Range(entry.Options)
    IN  /\ entry.FSType = <<"ext4">>
        /\ entry.MountPoint # <<"none">>
        /\ \/ <<"discard">> \in options
           \/ <<"noatime">> \notin options
           \/ <<"nodiratime">> \notin options
           \/ ~hasCommit((options \ {<<"discard">>})
                            \cup {<<"noatime">>, <<"nodiratime">>})

\* OptimizeEntry: the entries it can leave behind.  A modified entry gets its
\* options from a range over the option map, in any order.
OptimizeEntry(entry) ==
    IF OptimizeModifies(entry)
    THEN {[entry EXCEPT !.Options = [i \in DOMAIN o |-> o[i]]] :
              o \in Perms(OptimizedOptions(entry))}
    ELSE {entry}

\* Apply: the optimisation loop over the entries, from entry i on
RECURSIVE OptimizeFrom(_, _)
OptimizeFrom(entries, i) ==
    IF i > Len(entries) THEN {entries}
    ELSE IF entries[i].IsComment THEN OptimizeFrom(entries, i + 1)
    ELSE UNION {OptimizeFrom([entries EXCEPT ![i] = e], i + 1) :
                   e \in OptimizeEntry(entries[i])}

\* GenerateFstab
GenerateFstabLine(entry) ==
    IF entry.IsComment THEN entry.Comment
    ELSE PadRight(entry.Device, 45) \o <<" ">>
         \o PadRight(entry.MountPoint, 15) \o <<" ">>
         \o PadRight(entry.FSType, 7) \o <<" ">>
         \o PadRight(Join(entry.Options, <<",">>), 30) \o <<" ">>
         \o entry.Dump \o <<" ">> \o entry.Pass

\* the lines of strings.Join(lines, "\n") + "\n"
GenerateFstab(entries) ==
    IF entries = <<>> THEN << <<>> >>
    ELSE [i \in 1..Len(entries) |-> GenerateFstabLine(entries[i])]

\* Apply: the remount loop; remountOk tells whether the mount commands succeed
Remounts(entries, remountOk) ==
    Concat([i \in 1..Len(entries) |->
        IF /\ ~entries[i].IsComment
           /\ entries[i].FSType = <<"ext4">>
           /\ entries[i].MountPoint # <<"none">>
        THEN <<Ev("exec", "mount -o remount"),
               IF remountOk THEN Ev("PrintSuccess", "Remounted")
               ELSE Ev("PrintWarning", "Failed to remount")>>
        ELSE <<>>])

\* FstabTuner.Apply.  optimized is what the optimisation loop left in this
\* execution, one of OptimizeFrom(ParseFstab(content), 1).
FstabTunerApply(fsv, d, mf, dryRun, optimized, remountOk, bfault) ==
    LET step == Ev("PrintStep", "Optimizing /etc/fstab")
        same == [fs |-> fsv, dir |-> d, manifest |-> mf]
    IN  IF ~fsv[FstabPath].exists
        THEN same @@ [ret |-> "err", out |-> <<step>>]
        ELSE IF ScanErr(fsv[FstabPath].content)
        THEN same @@ [ret |-> "err", out |-> <<step>>]
        ELSE
        LET entries == ParseFstab(fsv[FstabPath].content)
            modified == \E i \in 1..Len(entries) :
                            ~entries[i].IsComment /\ OptimizeModifies(entries[i])
            infos == Concat([i \in 1..Len(entries) |->
                        IF ~entries[i].IsComment /\ OptimizeModifies(entries[i])
                        THEN <<Ev("PrintInfo", "Optimizing")>> ELSE <<>>])
            b == BackupFile(fsv, d, mf, SessionTimestamp, FstabPath, bfault)
        IN  IF ~modified
            THEN same @@ [ret |-> "nil",
                          out |-> <<step, Ev("PrintSuccess",
                                      "No fstab optimizations needed")>>]
            ELSE IF dryRun
            THEN same @@ [ret |-> "nil",
                          out |-> <<step>> \o infos
                                  \o <<Ev("PrintInfo", "Would update")>>]
            ELSE IF BackupFailed(b)
            THEN [fs |-> fsv, dir |-> b.dir, manifest |-> b.manifest,
                  ret |-> "err",
                  out |-> <<step>> \o infos \o <<Ev("BackupFile", b.ret)>> \o b.out]
            ELSE [fs |-> WriteFile(fsv, FstabPath, GenerateFstab(optimized)),
                  dir |-> b.dir, manifest |-> b.manifest, ret |-> "nil",
                  out |-> <<step>> \o infos \o <<Ev("BackupFile", b.ret)>> \o b.out
                          \o <<Ev("write", "fstab")>>
                          \o Remounts(optimized, remountOk)]

----------------------------------------------------------------------------
(* The network mutator: NetworkTuner *)

\* GetSystemdService: the unit text, which the code never looks inside
SystemdService == << <<"[Unit]">>, <<"[Service]">>, <<"[Install]">> >>

\* NetworkTuner.Apply.  The systemctl calls after the write only warn when
\* they fail (systemctlOk).
NetworkTunerApply(fsv, d, mf, dryRun, systemctlOk, bfault) ==
    LET step == Ev("PrintStep", "Configuring network optimizations")
        b == BackupFile(fsv, d, mf, SessionTimestamp, ServicePath, bfault)
    IN  IF dryRun
        THEN [fs |-> fsv, dir |-> d, manifest |-> mf, ret |-> "nil",
              out |-> <<step, Ev("PrintInfo", "Would create")>>]
        ELSE IF BackupFailed(b)
        THEN [fs |-> fsv, dir |-> b.dir, manifest |-> b.manifest,
              ret |-> "err", out |-> <<step, Ev("BackupFile", b.ret)>> \o b.out]
        ELSE [fs |-> WriteFile(fsv, ServicePath, SystemdService),
              dir |-> b.dir, manifest |-> b.manifest, ret |-> "nil",
              out |-> <<step, Ev("BackupFile", b.ret)>> \o b.out
                      \o <<Ev("write", "network-tuning.service"),
                           Ev("exec", "systemctl daemon-reload"),
                           Ev("exec", "systemctl enable"),
                           Ev("exec", "systemctl start")>>
                      \o (IF systemctlOk
                          THEN <<Ev("PrintSuccess", "Network tuning applied")>>
                          ELSE <<Ev("PrintWarning", "Failed to start service")>>)]

----------------------------------------------------------------------------
(* Tuning runs: runTuner of cmd/vmware-tuner/main.go with --no-sysctl and  *)
(* --no-io.  A run starts a session of its own (NewBackupManager names the *)
(* directory after the time), then applies the mutators that its flags     *)
(* leave on, in the order GRUB, fstab, network.                            *)

MaxRuns == 2         \* runs one after the other on the same machine

GrubFiles ==
    { << <<"#", " ", "comment">>,
         <<"GRUB_TIMEOUT", "=", "5">>,
         <<CmdlineKey, "=", "dq", "quiet", "dq">> >>,
      << <<CmdlineKey, "=", "dq", "dq">> >>,
      << <<"GRUB_TIMEOUT", "=", "5">>,
         <<" ", CmdlineKey, "=", "dq", "elevator", "=", "deadline", " ", " ",
           "quiet", "dq">> >>,
      << <<"GRUB_TIMEOUT", "=", "5">>,
         <<"#", CmdlineKey, "=", "dq", "quiet", "dq">> >> }

FstabFiles ==
    { << <<"#", " ", "comment">>,
         <<"/dev/sda1", "\t", "/", "\t", "ext4", "\t",
           "noatime", ",", "discard", "\t", "0", " ", "1">>,
         <<"none", " ", "swap", " ", "swap", " ", "sw", " ", "0", " ", "0">> >>,
      << <<"/dev/sda1", " ", "/", " ", "ext4", " ", "defaults">>,
         <<>> >>,
      << <<"/dev/sda1", " ", "/", " ", "xfs", " ", "defaults", " ", "0", " ", "0">>,
         <<"/dev/sdb1", " ", "/data", " ", "ext4", " ",
           "commit", "=", "30", ",", "nodiratime", " ", "0", " ", "0">> >>,
      << <<"/dev/sdb1", " ", "none", " ", "ext4", " ", "defaults", " ", "0", " ", "0">>,
         <<"/dev/sda1", " ", "/", " ", "ext4", " ", "discard", ",", " ",
           "0", " ", "1", " ", "#", " ", "comment">> >> }

\* the command-line flags of a run, and bloat: whether the machine runs
\* services that the debloat step offers to disable
AllFlags(noGrub, noSysctl, noFstab, noIO, noNet, installTools, doDebloat, bloat) ==
    [noGrub |-> noGrub, noSysctl |-> noSysctl, noFstab |-> noFstab,
     noIO |-> noIO, noNet |-> noNet, installTools |-> installTools,
     doDebloat |-> doDebloat, bloat |-> bloat]

\* --no-sysctl --no-io on a machine without such services
Flags(noGrub, noFstab, noNet) ==
    AllFlags(noGrub, TRUE, noFstab, TRUE, noNet, FALSE, FALSE, FALSE)

\* an order in which the mount table comes before the kernel tunables
MutatorOrderSwapped ==
    <<"start", "grub", "fstab", "sysctl", "io", "network", "vmtools",
      "debloat", "done">>

\* the order of the steps of runTuner
MutatorOrder ==
    <<"start", "grub", "sysctl", "fstab", "io", "network", "vmtools",
      "debloat", "done">>

\* the mutator that runs after the one at pc
AfterPc(pc, flags) ==
    LET order == MutatorOrder
        on == [x \in Range(order) |->
                  CASE x = "grub" -> ~flags.noGrub
                    [] x = "sysctl" -> ~flags.noSysctl
                    [] x = "fstab" -> ~flags.noFstab
                    [] x = "io" -> ~flags.noIO
                    [] x = "network" -> ~flags.noNet
                    [] x = "vmtools" -> flags.installTools
                    [] x = "debloat" -> flags.doDebloat \/ flags.bloat
                    [] OTHER -> TRUE]
        at == Index(order, pc)
        next == CHOOSE j \in (at + 1)..Len(order) :
                    on[order[j]] /\ \A k \in (at + 1)..(j - 1) : ~on[order[k]]
    IN  order[next]

\* the state of the runs before the first one: faulty tells whether the
\* BackupFile calls of the mutators can meet I/O faults
NewRun(flags, faulty, files) ==
    [pc |-> "start", flags |-> flags, dryRun |-> FALSE, n |-> 0,
     pre |-> files, wrote |-> {}, tuned |-> {}, restored |-> FALSE,
     faulty |-> faulty, nf |-> 0, called |-> <<>>, failed |-> {},
     rebootRequired |-> FALSE, completion |-> "none"]

InitRunsWith(flags, faulty) ==
    /\ fs \in [Paths -> {NoFile} \cup {File(c, 420) : c \in GrubFiles \cup FstabFiles}
                                 \cup {File(SystemdService, 420)}]
    /\ fs[GrubPath].exists /\ fs[GrubPath].content \in GrubFiles
    /\ fs[FstabPath].exists /\ fs[FstabPath].content \in FstabFiles
    /\ fs[ServicePath].exists => fs[ServicePath].content = SystemdService
    /\ flags.noGrub => fs[GrubPath].content = CHOOSE c \in GrubFiles : TRUE
    /\ flags.noFstab => fs[FstabPath].content = CHOOSE c \in FstabFiles : TRUE
    /\ flags.noNet => ~fs[ServicePath].exists
    /\ dir = NoDir
    /\ manifest = NoManifest
    /\ ro = {}
    /\ out = <<>>
    /\ ret = "none"
    /\ hist = NoHist
    /\ run = NewRun(flags, faulty, fs)
    /\ inp = <<>>
    /\ res = <<>>

InitRuns(flags) == InitRunsWith(flags, FALSE)

\* a session directory made in every run, previews included
SessionDirAlways(dryRun) == InitializeDir(NoDir)

\* backup.Initialize, unless the run is a preview
SessionDir(dryRun) == IF dryRun THEN NoDir ELSE InitializeDir(NoDir)

\* the installation of ethtool before the mutators
InstallDependencies(dryRun, noNet) ==
    IF ~dryRun /\ ~noNet THEN <<Ev("exec", "install ethtool")>> ELSE <<>>

\* runTuner up to the first mutator: a new session, whose directory is
\* created unless the run is a preview
BeginRun(dryRun) ==
    /\ run.n < MaxRuns
    /\ dir' = SessionDir(dryRun)
    /\ manifest' = NoManifest
    /\ out' = InstallDependencies(dryRun, run.flags.noNet)
              \o (IF dryRun THEN <<Ev("PrintInfo", "DRY RUN MODE")>>
                  ELSE <<Ev("PrintSuccess", "Backup directory created")>>)
    /\ ret' = "none"
    /\ run' = [run EXCEPT !.pc = AfterPc("start", run.flags), !.dryRun = dryRun,
                          !.n = @ + 1, !.pre = fs, !.wrote = {},
                          !.called = <<>>, !.failed = {},
                          !.rebootRequired = FALSE, !.completion = "none"]
    /\ UNCHANGED <<fs, ro, hist, inp, res>>

StartRun == run.pc = "start" /\ \E dryRun \in BOOLEAN : BeginRun(dryRun)

\* the tool is run again after a run has ended
Rerun == run.pc = "done" /\ \E dryRun \in BOOLEAN : BeginRun(dryRun)

\* the I/O faults the BackupFile call of the mutator on path can meet
RunFaults(path) ==
    {"none"} \cup (IF /\ run.faulty /\ run.nf < MaxFaults
                      /\ ~run.dryRun /\ fs[path].exists
                   THEN BackupFaults ELSE {})

\* runTuner after the GRUB block: rebootRequired is set when grub.Apply
\* returned nil
RebootRequired(before, name, r) ==
    IF name = "grub" THEN r = "nil" ELSE before

\* the end of runTuner: the completion message, with the notice that a
\* reboot is required and the offer to reboot now, or the closing lines of a
\* preview
Completion(dryRun, rebootRequired) ==
    IF dryRun THEN "DRY RUN completed"
    ELSE IF rebootRequired THEN "reboot required"
    ELSE "completed"

\* a debloat step that runs no mutator: the move to the end of runTuner
SkipDebloat ==
    [run EXCEPT !.pc = AfterPc("debloat", run.flags),
                !.completion = Completion(run.dryRun, run.rebootRequired)]

\* what a mutator leaves behind, the report of its error by runTuner, and
\* the move to the next mutator
Applied(name, path, r, bfault) ==
    /\ fs' = r.fs
    /\ dir' = r.dir
    /\ manifest' = r.manifest
    /\ ret' = r.ret
    /\ out' = r.out \o (IF r.ret = "err"
                        THEN <<Ev("PrintError", "tuning failed")>> ELSE <<>>)
    /\ run' = [run EXCEPT
                 !.pc = AfterPc(name, run.flags),
                 !.nf = IF bfault = "none" THEN @ ELSE @ + 1,
                 !.called = Append(@, name),
                 !.failed = IF r.ret = "err" THEN @ \cup {name} ELSE @,
                 !.rebootRequired = RebootRequired(@, name, r.ret),
                 !.completion =
                     IF AfterPc(name, run.flags) = "done"
                     THEN Completion(run.dryRun,
                                     RebootRequired(run.rebootRequired, name, r.ret))
                     ELSE @,
                 !.wrote = IF r.fs # fs \/ \E i \in 1..Len(r.out) : r.out[i][1] = "write"
                           THEN @ \cup {path} ELSE @,
                 !.tuned = IF ~run.dryRun /\ r.ret = "nil"
                           THEN @ \cup {name} ELSE @]
    /\ UNCHANGED <<ro, hist, inp, res>>

GrubApply ==
    /\ run.pc = "grub"
    /\ \E updateGrubOk \in BOOLEAN, bfault \in RunFaults(GrubPath) :
       \E newParams \in mergeParams(parseParams(CurrentCmdline(fs[GrubPath].content)),
                                    VMwareBootParams) :
          Applied("grub", GrubPath,
                  GrubTunerApply(fs, dir, manifest, run.dryRun, newParams,
                                 updateGrubOk, bfault), bfault)

FstabApply ==
    /\ run.pc = "fstab"
    /\ \E remountOk \in BOOLEAN, bfault \in RunFaults(FstabPath) :
       \E optimized \in OptimizeFrom(ParseFstab(fs[FstabPath].content), 1) :
          Applied("fstab", FstabPath,
                  FstabTunerApply(fs, dir, manifest, run.dryRun, optimized,
                                  remountOk, bfault), bfault)

NetworkApply ==
    /\ run.pc = "network"
    /\ \E systemctlOk \in BOOLEAN, bfault \in RunFaults(ServicePath) :
          Applied("network", ServicePath,
                  NetworkTunerApply(fs, dir, manifest, run.dryRun, systemctlOk,
                                    bfault), bfault)

\* a mutator that touches none of the modelled files: r is its outcome
Outcome(r, events) ==
    [fs |-> fs, dir |-> dir, manifest |-> manifest, ret |-> r, out |-> events]

\* SysctlTuner.Apply, as runTuner sees it: it returns nil or an error
SysctlApply ==
    /\ run.pc = "sysctl"
    /\ \E r \in {"nil", "err"} :
          Applied("sysctl", ServicePath,
                  Outcome(r, <<Ev("PrintStep", "Applying sysctl tuning")>>), "none")

\* SchedulerTuner.Apply, as runTuner sees it: it returns nil or an error
SchedulerApply ==
    /\ run.pc = "io"
    /\ \E r \in {"nil", "err"} :
          Applied("io", ServicePath,
                  Outcome(r, <<Ev("PrintStep", "Configuring I/O scheduler")>>), "none")

\* VMToolsTuner.ensureService: nothing in a preview
ensureService(dryRun) ==
    IF dryRun THEN <<>>
    ELSE <<Ev("exec", "systemctl enable"), Ev("exec", "systemctl start"),
           Ev("PrintSuccess", "VMware Tools service configured")>>

\* VMToolsTuner.Apply: installed is what CheckInstalled finds, installOk
\* whether the package manager succeeds
VMToolsTunerApply(dryRun, installed, installOk) ==
    LET step == Ev("PrintStep", "Checking VMware Tools")
    IN  IF installed
        THEN Outcome("nil", <<step, Ev("PrintSuccess", "already installed")>>
                            \o ensureService(dryRun))
        ELSE IF dryRun
        THEN Outcome("nil", <<step, Ev("PrintInfo", "open-vm-tools is missing"),
                              Ev("PrintInfo", "Would install open-vm-tools package")>>)
        ELSE IF ~installOk
        THEN Outcome("err", <<step, Ev("PrintInfo", "open-vm-tools is missing"),
                              Ev("exec", "install open-vm-tools")>>)
        ELSE Outcome("nil", <<step, Ev("PrintInfo", "open-vm-tools is missing"),
                              Ev("exec", "install open-vm-tools")>>
                            \o ensureService(dryRun))

VMToolsApply ==
    /\ run.pc = "vmtools"
    /\ \E installed \in BOOLEAN, installOk \in BOOLEAN :
          Applied("vmtools", ServicePath,
                  VMToolsTunerApply(run.dryRun, installed, installOk), "none")

\* the stop and disable of the services found
StopAndDisable ==
    <<Ev("PrintInfo", "Disabling"), Ev("exec", "systemctl stop"),
      Ev("exec", "systemctl disable")>>

\* DebloatTuner.Apply: bloat tells whether GetBloatServices finds a service
DebloatTunerApply(dryRun, bloat) ==
    LET step == Ev("PrintStep", "Checking for unnecessary services")
        query == Ev("query", "systemctl is-active")
    IN  IF ~bloat
        THEN Outcome("nil", <<step, query, Ev("PrintSuccess", "System is already clean")>>)
        ELSE IF dryRun
        THEN Outcome("nil", <<step, query, Ev("PrintInfo", "Found unnecessary services"),
                              Ev("PrintInfo", "Would disable these services")>>)
        ELSE Outcome("nil", <<step, query, Ev("PrintInfo", "Found unnecessary services")>>
                            \o StopAndDisable)

\* DebloatTuner.DisableServices on the services found
DisableServices(dryRun) ==
    IF dryRun THEN Outcome("nil", <<Ev("PrintInfo", "Disabling")>>)
    ELSE Outcome("nil", StopAndDisable)

\* the last step of runTuner: with --debloat it calls DebloatTuner.Apply;
\* without it, outside a preview, it asks whether to disable the services
\* found
DebloatApply ==
    /\ run.pc = "debloat"
    /\ IF run.flags.doDebloat
       THEN Applied("debloat", ServicePath,
                    DebloatTunerApply(run.dryRun, run.flags.bloat), "none")
       ELSE IF run.dryRun
       THEN /\ out' = <<>>
            /\ run' = SkipDebloat
            /\ ret' = "none"
            /\ UNCHANGED <<fs, dir, manifest, ro, hist, inp, res>>
       ELSE \E yes \in BOOLEAN :
              IF yes
              THEN Applied("debloat", ServicePath, DisableServices(run.dryRun), "none")
              ELSE /\ out' = <<Ev("query", "systemctl is-active"),
                               Ev("PrintInfo", "Skipping Server Slim optimization")>>
                   /\ run' = SkipDebloat
                   /\ ret' = "none"
                   /\ UNCHANGED <<fs, dir, manifest, ro, hist, inp, res>>

\* the restore command on the session of the run that has just ended
RestoreRun ==
    /\ run.pc = "done"
    /\ ~run.restored
    /\ LET r == RestoreFromManifest(fs, dir, manifest, {}, {})
       IN  /\ fs' = r.fs
           /\ ret' = r.ret
           /\ out' = r.out
    /\ run' = [run EXCEPT !.restored = TRUE]
    /\ UNCHANGED <<dir, manifest, ro, hist, inp, res>>

\* SpecRun: one run with the three mutators, then the restore of its session
InitRun == InitRuns(Flags(FALSE, FALSE, FALSE))
NextRun == StartRun \/ GrubApply \/ FstabApply \/ NetworkApply \/ RestoreRun
SpecRun == InitRun /\ [][NextRun]_vars

\* SpecGrub: runs with --no-fstab --no-network, one after the other
InitGrub == InitRuns(Flags(FALSE, TRUE, TRUE))
NextGrub == StartRun \/ GrubApply \/ Rerun
SpecGrub == InitGrub /\ [][NextGrub]_vars

\* SpecFstab: runs with --no-grub --no-network, one after the other
InitFstab == InitRuns(Flags(TRUE, FALSE, TRUE))
NextFstab == StartRun \/ FstabApply \/ Rerun
SpecFstab == InitFstab /\ [][NextFstab]_vars

----------------------------------------------------------------------------
(* Claims about the tuning runs *)

\* C5: after a run that is not a preview and the restore of its session,
\* every file the run's mutators wrote is in its pre-run state: its pre-run
\* content if it existed before the run, absent if the run created it.
C5_EveryChangeReversible ==
    (run.restored /\ ~run.dryRun)
        => \A p \in run.wrote :
              IF run.pre[p].exists
              THEN fs[p].exists /\ fs[p].content = run.pre[p].content
              ELSE ~fs[p].exists

\* the defaults file holds exactly the merged parameter set, in some order
HoldsMergedSet(f) ==
    /\ f.exists
    /\ LET current == parseParams(CurrentCmdline(f.content))
       IN  \E merged \in mergeParams(current, VMwareBootParams) :
               Len(merged) = Len(current) /\ Range(merged) = Range(current)

AlreadyOptimized ==
    <<Ev("PrintStep", "Optimizing GRUB boot parameters"),
      Ev("PrintSuccess", "GRUB boot parameters already optimized")>>

\* C6: a GrubTuner.Apply on a defaults file that holds exactly the merged
\* parameter set reports "already optimized" and makes no backup, no write
\* and no boot-loader regeneration, in every execution.
C6_GrubIdempotent ==
    [][(run.pc = "grub" /\ HoldsMergedSet(fs[GrubPath]))
          => /\ out' = AlreadyOptimized
             /\ ret' = "nil"
             /\ fs' = fs /\ dir' = dir /\ manifest' = manifest]_vars

NoOptimizationsNeeded ==
    <<Ev("PrintStep", "Optimizing /etc/fstab"),
      Ev("PrintSuccess", "No fstab optimizations needed")>>

\* C7: a FstabTuner.Apply on an fstab that an earlier Apply has optimised
\* reports no entry modified and makes no backup, no write and no remount.
C7_FstabIdempotent ==
    [][(run.pc = "fstab" /\ "fstab" \in run.tuned)
          => /\ out' = NoOptimizationsNeeded
             /\ ret' = "nil"
             /\ fs' = fs /\ dir' = dir /\ manifest' = manifest]_vars

\* C7 witness: the second run has applied the fstab mutator to the file the
\* first run wrote, and has left it and its own session untouched.
C7_Witness ==
    /\ run.n = 2 /\ run.pc = "done" /\ ~run.dryRun
    /\ "fstab" \in run.tuned
    /\ fs[FstabPath].content \notin FstabFiles
    /\ fs = run.pre
    /\ out = NoOptimizationsNeeded
    /\ ~manifest.exists
    /\ \A n \in BackupNames : ~dir.files[n].exists

----------------------------------------------------------------------------
(* More claims about the disk resolver, under SpecDisk *)

\* the index a partition name ends with: its longest suffix of digits
TrailingDigits(name) ==
    LET n == CHOOSE k \in 0..Len(name) :
                 /\ \A i \in (Len(name) - k + 1)..Len(name) : name[i] \in DigitAtoms
                 /\ (k < Len(name) => name[Len(name) - k] \notin DigitAtoms)
    IN  SubSeq(name, Len(name) - n + 1, Len(name))

\* C11: when "/" is mounted on a partition P that is a direct child of a
\* top-level disk D, findRootInTree returns (D, index of P) and no error,
\* whatever P's siblings and the other disks are.
C11_ResolvesPartition ==
    run.pc = "ret" =>
        \A i \in 1..Len(inp) : \A j \in 1..Len(inp[i].children) :
            (/\ inp[i].type = "disk"
             /\ inp[i].children[j].type = "part"
             /\ inp[i].children[j].mountpoint = "/")
                => res = Found(inp[i].name,
                               TrailingDigits(inp[i].children[j].name), "")

\* C11 witness: sda{sda1:/boot, sda2:/} resolved to ("sda", "2")
C11_Witness ==
    /\ run.pc = "ret"
    /\ Len(inp) = 1
    /\ inp[1].name = <<"sda">>
    /\ Len(inp[1].children) = 2
    /\ inp[1].children[1].name = <<"sda", "1">>
    /\ inp[1].children[1].mountpoint = "/boot"
    /\ inp[1].children[2].name = <<"sda", "2">>
    /\ inp[1].children[2].mountpoint = "/"
    /\ res = Found(<<"sda">>, <<"2">>, "")

----------------------------------------------------------------------------
(* Specification SpecPart: extractPartitionNumber on every pair of names   *)
(* over a small alphabet, one atom per character.                          *)

MaxDiskLen == 2      \* characters of the disk name
MaxPartLen == 4      \* characters of the partition name

NameChars == {"s", "p", "1", "2"}

InitPart ==
    /\ IdleStore
    /\ run = [pc |-> "call"]
    /\ inp \in [disk : SeqsUpTo(NameChars, MaxDiskLen),
                partition : SeqsUpTo(NameChars, MaxPartLen)]
    /\ res = <<>>

ExtractIndex ==
    /\ run.pc = "call"
    /\ res' = extractPartitionNumber(inp.disk, inp.partition)
    /\ run' = [pc |-> "ret"]
    /\ UNCHANGED <<fs, dir, manifest, ro, out, ret, hist, inp>>

NextPart == ExtractIndex

SpecPart == InitPart /\ [][NextPart]_vars

\* the partition name without the disk name in front and without one
\* leading "p"
Remainder(disk, partition) ==
    LET rest == IF /\ Len(disk) <= Len(partition)
                   /\ \A i \in 1..Len(disk) : partition[i] = disk[i]
                THEN [i \in 1..(Len(partition) - Len(disk)) |-> partition[Len(disk) + i]]
                ELSE partition
    IN  IF rest # <<>> /\ rest[1] = "p"
        THEN [i \in 1..(Len(rest) - 1) |-> rest[i + 1]] ELSE rest

HasDigit(s) == \E i \in 1..Len(s) : s[i] \in DigitAtoms

\* the first run of digits of s, for an s that holds a digit
FirstDigitRun(s) ==
    LET a == CHOOSE i \in 1..Len(s) :
                 s[i] \in DigitAtoms /\ \A k \in 1..(i - 1) : s[k] \notin DigitAtoms
        b == CHOOSE j \in a..Len(s) :
                 /\ \A k \in a..j : s[k] \in DigitAtoms
                 /\ (j < Len(s) => s[j + 1] \notin DigitAtoms)
    IN  SubSeq(s, a, b)

AllDigits(s) == s # <<>> /\ \A i \in 1..Len(s) : s[i] \in DigitAtoms

\* C12: extractPartitionNumber returns the first run of digits of the
\* partition name once the disk prefix and one leading "p" are stripped, and
\* "1" only as the fallback when no digit is left; for disk + digits and
\* disk + "p" + digits it returns exactly those digits.
C12_PartitionIndex ==
    run.pc = "ret" =>
        LET rem == Remainder(inp.disk, inp.partition)
        IN  /\ HasDigit(rem) => res = FirstDigitRun(rem)
            /\ ~HasDigit(rem) => res = <<"1">>
            /\ \A k \in 1..Len(inp.partition) :
                  LET d == SubSeq(inp.partition, k, Len(inp.partition))
                  IN  (/\ AllDigits(d)
                       /\ \/ inp.partition = inp.disk \o d
                          \/ inp.partition = inp.disk \o <<"p">> \o d)
                          => res = d

\* C12 witness: disk "s1", partition "s1p2": the index is "2", not the "1"
\* of the disk name
C12_Witness ==
    /\ run.pc = "ret"
    /\ inp.disk = <<"s", "1">>
    /\ inp.partition = <<"s", "1", "p", "2">>
    /\ res = <<"2">>

----------------------------------------------------------------------------
(* ExpandRoot from the lsblk report on: DiskTuner.ExpandRoot *)

\* the partition path built for the resize command
partPath(diskName, partNum) ==
    IF /\ \E i \in 1..Len(diskName) : diskName[i] \in {"nvme", "loop", "mmcblk"}
       /\ ~(diskName # <<>> /\ diskName[Len(diskName)] = "p")
    THEN <<"/dev/">> \o diskName \o <<"p">> \o partNum
    ELSE <<"/dev/">> \o diskName \o partNum

\* ExpandRoot once the user has agreed and growpart is installed.  growpart
\* is what the growpart command does: "ok", "NOCHANGE" or "fail"; fsType is
\* what findmnt reports, "" when findmnt fails.
ExpandRoot(devices, growpart, fsType) ==
    LET found == findRootInTree(devices)
        grow == Ev("exec", <<"growpart", <<"/dev/">> \o found.disk, found.part>>)
        path == partPath(found.disk, found.part)
        none == <<>>
    IN  IF found.err # ""
        THEN [found |-> found, partPath |-> none, ret |-> "err", out |-> <<>>]
        ELSE IF growpart = "fail"
        THEN [found |-> found, partPath |-> none, ret |-> "err", out |-> <<grow>>]
        ELSE IF fsType = ""
        THEN [found |-> found, partPath |-> none, ret |-> "err",
              out |-> <<grow, Ev("exec", <<"findmnt", "/">>)>>]
        ELSE IF fsType = "ext4"
        THEN [found |-> found, partPath |-> path, ret |-> "nil",
              out |-> <<grow, Ev("exec", <<"findmnt", "/">>),
                        Ev("exec", <<"resize2fs", path>>)>>]
        ELSE IF fsType = "xfs"
        THEN [found |-> found, partPath |-> path, ret |-> "nil",
              out |-> <<grow, Ev("exec", <<"findmnt", "/">>),
                        Ev("exec", <<"xfs_growfs", "/">>)>>]
        ELSE [found |-> found, partPath |-> path, ret |-> "err",
              out |-> <<grow, Ev("exec", <<"findmnt", "/">>)>>]

----------------------------------------------------------------------------
(* Specification SpecExpand: ExpandRoot on machines whose root file system *)
(* is on a partition of a disk.                                            *)

MaxParts == 3        \* partitions of the disk that holds "/"

ExpandDiskNames ==
    { <<"sda">>, <<"vda">>, <<"nvme", "0", "n", "1">>, <<"mmcblk", "0">>,
      <<"loop", "0">>, <<"nbd", "0">> }

\* a disk with n partitions, named as the kernel names them, partition r
\* mounted at mp
PartitionedDisk(dname, n, r, mp) ==
    Node(dname, "disk", "",
         [c \in 1..n |-> Node(ChildName(dname, "part", c), "part",
                              IF c = r THEN mp ELSE "", <<>>)])

InitExpand ==
    /\ IdleStore
    /\ run = [pc |-> "call"]
    /\ \E dname \in ExpandDiskNames, n \in 1..MaxParts, other \in BOOLEAN :
       \E r \in 1..n :
          inp = (IF other THEN <<PartitionedDisk(<<"sdb">>, 1, 1, "/data")>>
                 ELSE <<>>)
                \o <<PartitionedDisk(dname, n, r, "/")>>
    /\ res = <<>>

DoExpandRoot ==
    /\ run.pc = "call"
    /\ \E growpart \in {"ok", "NOCHANGE", "fail"},
          fsType \in {"ext4", "xfs", "btrfs", ""} :
          LET r == ExpandRoot(inp, growpart, fsType)
          IN  /\ res' = [found |-> r.found, partPath |-> r.partPath]
              /\ ret' = r.ret
              /\ out' = r.out
    /\ run' = [pc |-> "ret"]
    /\ UNCHANGED <<fs, dir, manifest, ro, hist, inp>>

NextExpand == DoExpandRoot

SpecExpand == InitExpand /\ [][NextExpand]_vars

\* C13: whenever findRootInTree resolved "/" to the partition P of disk D,
\* the partition path built for the resize is "/dev/" followed by P's name.
C13_PartPathRoundTrip ==
    (run.pc = "ret" /\ res.found.err = "" /\ res.partPath # <<>>)
        => \A i \in 1..Len(inp) : \A j \in 1..Len(inp[i].children) :
              (/\ inp[i].type = "disk"
               /\ inp[i].children[j].type = "part"
               /\ inp[i].children[j].mountpoint = "/")
                  => res.partPath = <<"/dev/">> \o inp[i].children[j].name

----------------------------------------------------------------------------
(* Specification SpecFault: one run with the three mutators, whose         *)
(* BackupFile calls can meet I/O faults.                                   *)

\* a machine with a stock GRUB defaults file and a root file system mounted
\* with discard
StockFiles ==
    /\ CurrentCmdline(fs[GrubPath].content) = <<"quiet">>
    /\ \E i \in 1..Len(fs[FstabPath].content) :
          Contains(fs[FstabPath].content[i], "discard")
          /\ Contains(fs[FstabPath].content[i], "noatime")

InitFault == InitRunsWith(Flags(FALSE, FALSE, FALSE), TRUE) /\ StockFiles
NextFault == StartRun \/ GrubApply \/ FstabApply \/ NetworkApply
SpecFault == InitFault /\ [][NextFault]_vars

Writes(o) == {i \in 1..Len(o) : o[i][1] = "write"}

\* C14: in a run that is not a preview, a mutator writes its config file only
\* after its BackupFile call returned without error; when BackupFile returns
\* an error the mutator returns an error and writes nothing.
C14_BackupPrecedesWrite ==
    [][(run.pc \in {"grub", "fstab", "network"} /\ ~run.dryRun)
          => /\ (fs' # fs \/ Writes(out') # {})
                   => \E i \in 1..Len(out') :
                         /\ out'[i] = Ev("BackupFile", "nil")
                         /\ \A j \in Writes(out') : i < j
             /\ (\E i \in 1..Len(out') : out'[i] = Ev("BackupFile", "err"))
                   => ret' = "err" /\ fs' = fs /\ Writes(out') = {}]_vars

\* C14 witness: the GRUB mutator has backed up and written its file, then
\* the fstab mutator met a failing BackupFile, returned an error and left
\* /etc/fstab as it was.
C14_Witness ==
    /\ ~run.dryRun
    /\ run.called = <<"grub", "fstab">>
    /\ GrubPath \in run.wrote
    /\ run.failed = {"fstab"}
    /\ \E i \in 1..Len(out) : out[i] = Ev("BackupFile", "err")
    /\ ret = "err"
    /\ fs[FstabPath] = run.pre[FstabPath]

ReloadFailed(o) ==
    \E i \in 1..Len(o) :
        o[i] \in {Ev("PrintWarning", "Failed to update GRUB"),
                  Ev("PrintWarning", "Failed to remount"),
                  Ev("PrintWarning", "Failed to start service")}

\* C16: when a mutator has written its config file and the reload action
\* that follows fails, the mutator returns success, prints a warning only,
\* and the written file stays.
C16_ReloadDowngraded ==
    [][(/\ run.pc \in {"grub", "fstab", "network"}
        /\ Writes(out') # {}
        /\ ReloadFailed(out'))
          => /\ ret' = "nil"
             /\ \A i \in 1..Len(out') : out'[i][1] # "PrintError"]_vars

----------------------------------------------------------------------------
(* Complete runs of runTuner, with every mutator *)

\* runTuner stops with "nothing to do" when no module is selected
AnyModule(flags) ==
    \/ ~flags.noGrub \/ ~flags.noSysctl \/ ~flags.noFstab \/ ~flags.noIO
    \/ ~flags.noNet \/ flags.installTools \/ flags.doDebloat

NextAll ==
    \/ StartRun \/ GrubApply \/ SysctlApply \/ FstabApply \/ SchedulerApply
    \/ NetworkApply \/ VMToolsApply \/ DebloatApply

\* SpecOrder: one run on a stock machine, under every choice of flags
InitOrder ==
    \E g, s, f, i, n, t, d, b \in BOOLEAN :
       /\ AnyModule(AllFlags(g, s, f, i, n, t, d, b))
       /\ InitRunsWith(AllFlags(g, s, f, i, n, t, d, b), FALSE)
       /\ (~g /\ ~f) => StockFiles
       /\ (g \/ f) => fs = [p \in Paths |->
                              IF p = GrubPath
                              THEN File(CHOOSE c \in GrubFiles : TRUE, 420)
                              ELSE IF p = FstabPath
                              THEN File(CHOOSE c \in FstabFiles : TRUE, 420)
                              ELSE fs[p]]
       /\ ~fs[ServicePath].exists
SpecOrder == InitOrder /\ [][NextAll]_vars

\* SpecPreview: one run without the sysctl and I/O scheduler steps, on
\* machines that boot with "quiet"
InitPreview ==
    \E g, f, n, t, d, b \in BOOLEAN :
       /\ AnyModule(AllFlags(g, TRUE, f, TRUE, n, t, d, b))
       /\ InitRunsWith(AllFlags(g, TRUE, f, TRUE, n, t, d, b), FALSE)
       /\ ~g => CurrentCmdline(fs[GrubPath].content) = <<"quiet">>
NextPreview ==
    StartRun \/ GrubApply \/ FstabApply \/ NetworkApply \/ VMToolsApply \/ DebloatApply
SpecPreview == InitPreview /\ [][NextPreview]_vars

\* no command run, no file written, no backup made
Quiet(o) ==
    \A i \in 1..Len(o) : o[i][1] \notin {"exec", "write", "BackupFile"}

\* C15: in a preview run every step of runTuner (the start of the session
\* and the GRUB, fstab, network, VM-tools and debloat mutators) leaves every
\* file as it was before the run, creates no session directory and no
\* manifest, and runs no command.
C15_PreviewChangesNothing ==
    [][(run'.dryRun /\ run' # run)
          => /\ fs' = fs /\ fs' = run'.pre
             /\ dir' = NoDir
             /\ manifest' = NoManifest
             /\ Quiet(out')]_vars

\* a preview with every mutator of C15 selected has ended, on a machine whose
\* boot parameters and mount options are not yet tuned
C15_Witness ==
    /\ run.pc = "done" /\ run.dryRun
    /\ run.called = <<"grub", "fstab", "network", "vmtools", "debloat">>
    /\ run.flags.bloat
    /\ ~HoldsMergedSet(fs[GrubPath])
    /\ \E i \in 1..Len(fs[FstabPath].content) :
          Contains(fs[FstabPath].content[i], "defaults")

\* the order the mutators are documented to run in
FixedOrder ==
    <<"grub", "sysctl", "fstab", "io", "network", "vmtools", "debloat">>

\* the mutators the flags select
Selected(flags, name) ==
    CASE name = "grub" -> ~flags.noGrub
      [] name = "sysctl" -> ~flags.noSysctl
      [] name = "fstab" -> ~flags.noFstab
      [] name = "io" -> ~flags.noIO
      [] name = "network" -> ~flags.noNet
      [] name = "vmtools" -> flags.installTools
      [] name = "debloat" -> flags.doDebloat

\* the selected mutators that come before pc in the documented order
ExpectedBefore(flags, pc) ==
    LET at == IF pc = "done" THEN Len(FixedOrder) + 1 ELSE Index(FixedOrder, pc)
        Sel(i) == IF i < at /\ Selected(flags, FixedOrder[i])
                  THEN <<FixedOrder[i]>> ELSE <<>>
    IN  Sel(1) \o Sel(2) \o Sel(3) \o Sel(4) \o Sel(5) \o Sel(6) \o Sel(7)

\* the services were disabled on the answer to the prompt of runTuner
AnsweredYes ==
    /\ run.pc = "done" /\ ~run.flags.doDebloat /\ ~run.dryRun /\ run.flags.bloat
    /\ run.called = Append(ExpectedBefore(run.flags, "done"), "debloat")

\* C17: at every point of a run the mutators invoked so far are exactly the
\* selected ones that precede the current step in the order GRUB, sysctl,
\* fstab, I/O scheduler, network, VM-tools, debloat, each once, whether or
\* not some of them returned an error; and an error is reported.
C17_OrderAndIsolation ==
    run.pc # "start"
       => /\ run.called = ExpectedBefore(run.flags, run.pc) \/ AnsweredYes
          /\ run.failed \subseteq Range(run.called)
          /\ ret = "err" => /\ run.called # <<>>
                             /\ run.called[Len(run.called)] \in run.failed
                             /\ out[Len(out)] = Ev("PrintError", "tuning failed")

\* all seven mutators have been invoked although the first returned an error
C17_Witness ==
    /\ run.pc = "done"
    /\ run.called = FixedOrder
    /\ {"grub", "io"} \subseteq run.failed
----------------------------------------------------------------------------
(* ParseFstab and GenerateFstab on arbitrary files *)

MaxLines == 2   \* how many lines an fstab file has

LongDevice == "/dev/disk/by-uuid/0a1b2c3d-0a1b-0a1b-0a1b-0a1b2c3d4e5f"

\* lines of an fstab file: blank and comment lines, lines with fewer than four
\* fields, entries with four to seven fields, with tabs, leading white space,
\* empty options, wide columns, a carriage return at the end, and a line as
\* long as the scanner's buffer
FstabLines ==
    { <<>>,
      <<" ", "\t">>,
      <<"#", " ", "comment">>,
      <<" ", "#", "/dev/sda1", " ", "/", " ", "ext4", " ", "defaults">>,
      <<"#", " ", "comment", "\r">>,
      <<"/dev/sda1", " ", "/">>,
      <<"\t", "/dev/sda1", " ", " ", "/", "\t", "ext4", " ">>,
      <<"/dev/sda1", " ", "/", " ", "ext4", "\r">>,
      <<"x{65536}">>,
      <<"/dev/sda1", " ", "/", " ", "ext4", " ", "defaults">>,
      <<" ", "/dev/sdb1", "\t", "\t", "/data", " ", "xfs", " ",
        "noatime", ",", ",", "discard", ",", " ", "1", " ">>,
      <<"/dev/sda1", " ", "/", " ", "ext4", " ", "defaults", " ", "0", " ", "1", "\r">>,
      <<LongDevice, " ", "/data", " ", "ext4", " ",
        "commit", "=", "30", ",", "noatime", ",", "nodiratime", ",", "discard",
        " ", "1", " ", "2", " ", "#", " ", "comment">>,
      <<"none", " ", "swap", " ", "swap", " ", "sw", " ", "0", " ", "0">>,
      <<"/dev/sda1", " ", "/", " ", "ext4", " ", "defaults", " ", "x{65536}">> }

InitParse ==
    /\ IdleStore
    /\ run = [pc |-> "call"]
    /\ inp \in SeqsUpTo(FstabLines, MaxLines)
    /\ res = <<>>

\* ParseFstab on the file, GenerateFstab on its entries, and ParseFstab on
\* the text generated
RoundTrip(content) ==
    IF ScanErr(content)
    THEN [err |-> TRUE, first |-> <<>>, text |-> <<>>, again |-> <<>>]
    ELSE LET first == ParseFstab(content)
             text == GenerateFstab(first)
         IN  [err |-> ScanErr(text), first |-> first, text |-> text,
              again |-> IF ScanErr(text) THEN <<>> ELSE ParseFstab(text)]

DoRoundTrip ==
    /\ run.pc = "call"
    /\ res' = RoundTrip(inp)
    /\ run' = [pc |-> "ret"]
    /\ UNCHANGED <<fs, dir, manifest, ro, out, ret, hist, inp>>

NextParse == DoRoundTrip

SpecParse == InitParse /\ [][NextParse]_vars

\* the text of a line: what precedes its end-of-line marker, a newline with
\* an optional carriage return before it
LineText(line) ==
    IF line # <<>> /\ line[Len(line)] = "\r"
    THEN SubSeq(line, 1, Len(line) - 1) ELSE line

\* a non-comment line with fewer than four fields
Malformed(line) ==
    LET t == TrimSpace(line)
    IN  t # <<>> /\ Head(t) # "#" /\ Len(Fields(t)) < 4

\* a comment, blank or malformed line
Passthrough(line) ==
    LET t == TrimSpace(line)
    IN  t = <<>> \/ Head(t) = "#" \/ Len(Fields(t)) < 4

\* the six values of the data entries, in order
DataValues(entries) ==
    LET data == SelectSeq(entries, LAMBDA e : ~e.IsComment)
    IN  [i \in 1..Len(data) |->
            <<data[i].Device, data[i].MountPoint, data[i].FSType,
              data[i].Options, data[i].Dump, data[i].Pass>>]

\* the data lines of a file
DataLines(content) == SelectSeq(content, LAMBDA l : ~Passthrough(l))

\* C18: GenerateFstab(ParseFstab(x)) exists for every file x, holds every
\* comment, blank or malformed line of x at its position with the same
\* text, and parses again to as many data entries as x has data lines, with
\* the device, mount point, type, options, dump and pass of the first
\* parse.
C18_RoundTrip ==
    run.pc = "ret"
       => /\ ~res.err
          /\ \A i \in 1..Len(inp) :
                Passthrough(inp[i])
                   => i <= Len(res.text) /\ res.text[i] = LineText(inp[i])
          /\ Len(DataValues(res.again)) = Len(DataLines(inp))
          /\ DataValues(res.again) = DataValues(res.first)

\* C19: ParseFstab returns no error on any file; a non-comment line with
\* fewer than four fields becomes a passthrough record with the text of the
\* line, and every other line still gets its own record, a data line an
\* entry that starts with its first field.
C19_MalformedKept ==
    run.pc = "ret"
       => /\ ~res.err
          /\ Len(res.first) = Len(inp)
          /\ \A i \in 1..Len(inp) :
                IF Passthrough(inp[i])
                THEN res.first[i].IsComment
                     /\ res.first[i].Comment = LineText(inp[i])
                ELSE ~res.first[i].IsComment
                     /\ res.first[i].Device = Fields(inp[i])[1]
----------------------------------------------------------------------------
(* BackupFile calls with their argument on record *)

\* a BackupFile call without I/O faults; inp keeps the path it was given
BackupFileOf(p) ==
    BackupCall(p, "none") /\ inp' = p /\ UNCHANGED <<fs, ro, run, res>>

\* SpecCalls: a session with BackupFile calls on present and missing files
NextCalls ==
    \/ Initialize
    \/ \E p \in Paths : BackupFileOf(p)
    \/ \E p \in Paths : EnvWrite(p)
SpecCalls == Init /\ [][NextCalls]_vars

----------------------------------------------------------------------------
(* Restores on machines with and without a boot-loader defaults file *)

\* SpecReload: a session on a machine where any of the tracked files can be
\* missing, restored at some point
InitReload ==
    /\ fs \in [Paths -> {NoFile} \cup {File(Orig(p), 420) : p \in Paths}]
    /\ \A p \in Paths : fs[p].exists => fs[p].content = Orig(p)
    /\ dir = NoDir
    /\ manifest = NoManifest
    /\ ro = {}
    /\ out = <<>>
    /\ ret = "none"
    /\ hist = NoHist
    /\ run = NoRun
    /\ inp = <<>>
    /\ res = <<>>
NextReload ==
    \/ Initialize
    \/ \E p \in Paths, fault \in {"none"} \cup BackupFaults : DoBackupFile(p, fault)
    \/ Restore
SpecReload == InitReload /\ [][NextReload]_vars

\* the commands run, in order
Commands(o) == SelectSeq(o, LAMBDA e : e[1] = "exec")

\* the position of the first command in o; Len(o) + 1 when there is none
FirstCommand(o) ==
    IF \E i \in 1..Len(o) : o[i][1] = "exec"
    THEN CHOOSE i \in 1..Len(o) :
            o[i][1] = "exec" /\ \A j \in 1..(i - 1) : o[j][1] # "exec"
    ELSE Len(o) + 1

\* the entries attempted before position k of o
Attempts(o, k) ==
    Cardinality({i \in 1..(k - 1) : o[i] = Ev("PrintInfo", "Restauration")})

\* C21: a restore that has read its manifest runs, after a restore attempt
\* on every entry, the daemon-reload, the boot-loader regeneration exactly
\* when the defaults file exists, and the kernel-tunable reload, however
\* many entries failed; a restore that could not read its manifest runs no
\* command.
C21_ReloadsAfterRestore ==
    hist.phase = "restored" =>
        IF ManifestReadable
        THEN /\ Commands(out) =
                   <<Ev("exec", "systemctl daemon-reload")>>
                   \o (IF fs[GrubPath].exists
                       THEN <<Ev("exec", "update-grub")>> ELSE <<>>)
                   \o <<Ev("exec", "sysctl --system")>>
             /\ Attempts(out, FirstCommand(out)) = Len(Entries)
             /\ Attempts(out, Len(out) + 1) = Len(Entries)
        ELSE Commands(out) = <<>>

\* a restore without a boot-loader defaults file, where one of two entries
\* failed
C21_Witness ==
    /\ hist.phase = "restored"
    /\ ManifestReadable
    /\ ~fs[GrubPath].exists
    /\ Len(Entries) = 2
    /\ Errors(out) = 1
    /\ Len(Commands(out)) = 2
----------------------------------------------------------------------------
(* The reboot notice at the end of a run *)

\* C22: a run ends with the notice that a reboot is required only if its
\* GRUB mutator wrote the boot-loader defaults file in that run.
C22_RebootOnlyAfterChange ==
    (run.pc = "done" /\ run.completion = "reboot required")
        => GrubPath \in run.wrote
----------------------------------------------------------------------------
(* OptimizeEntry on arbitrary entries *)

MaxOpts == 2   \* how many options an entry has

OptionTokens ==
    {<<"defaults">>, <<"discard">>, <<"noatime">>, <<"rw">>,
     <<"commit", "=", "30">>}

\* entries of three filesystem types, mounted or not
InitOptimize ==
    /\ IdleStore
    /\ run = [pc |-> "call"]
    /\ inp \in {[Device |-> <<"/dev/sda1">>, MountPoint |-> mp, FSType |-> t,
                 Options |-> o, Dump |-> <<"0">>, Pass |-> <<"1">>,
                 Comment |-> <<>>, IsComment |-> FALSE] :
                    mp \in {<<"/">>, <<"none">>},
                    t \in {<<"ext4">>, <<"xfs">>, <<"swap">>},
                    o \in SeqsUpTo(OptionTokens, MaxOpts)}
    /\ res = <<>>

DoOptimizeEntry ==
    /\ run.pc = "call"
    /\ res' \in OptimizeEntry(inp)
    /\ run' = [pc |-> "ret"]
    /\ UNCHANGED <<fs, dir, manifest, ro, out, ret, hist, inp>>

NextOptimize == DoOptimizeEntry

SpecOptimize == InitOptimize /\ [][NextOptimize]_vars

\* the key of an option: what precedes its "=", or the whole option
OptionKey(o) ==
    IF Contains(o, "=") THEN SubSeq(o, 1, Index(o, "=") - 1) ELSE o

DesiredOptions == {<<"noatime">>, <<"nodiratime">>, <<"commit", "=", "60">>}

\* the merge of the existing options with the desired ones, where the
\* desired option stands on a key that both have
MergedOptions(existing) ==
    {o \in existing : \A d \in DesiredOptions : OptionKey(o) # OptionKey(d)}
        \cup DesiredOptions

\* C23: OptimizeEntry leaves on an ext4 entry with a mount point the merge of
\* its options without discard and {noatime, nodiratime, commit=60}, where
\* the desired option wins on a key that both have; it leaves every other
\* entry as it was.
C23_OptimizedOptions ==
    run.pc = "ret"
       => IF inp.FSType = <<"ext4">> /\ inp.MountPoint # <<"none">>
          THEN /\ Range(res.Options)
                     = MergedOptions(Range(inp.Options) \ {<<"discard">>})
               /\ [res EXCEPT !.Options = <<>>] = [inp EXCEPT !.Options = <<>>]
          ELSE res = inp
----------------------------------------------------------------------------
(* The GRUB mutator on arbitrary defaults files *)

MaxGrubLines == 2   \* how many lines a defaults file has

\* lines of a defaults file: blank lines, comments, a commented-out command
\* line, other settings, and command lines with and without leading white
\* space, quotes and a carriage return
GrubLines ==
    { <<>>,
      <<"#", " ", "comment">>,
      <<"#", CmdlineKey, "=", "dq", "quiet", "dq">>,
      <<"GRUB_TIMEOUT", "=", "5">>,
      <<" ", "GRUB_DEFAULT", "=", "0", "\r">>,
      <<CmdlineKey, "=", "dq", "quiet", "dq">>,
      <<"\t", CmdlineKey, "=", "quiet", " ">>,
      <<CmdlineKey, "=", "dq", "dq", "\r">> }

\* SpecRewrite: one run with --no-fstab --no-network on a machine with any
\* defaults file of at least one line
InitRewrite ==
    /\ \E c \in SeqsUpTo(GrubLines, MaxGrubLines) \ {<<>>} :
          fs = [p \in Paths |-> IF p = GrubPath THEN File(c, 420) ELSE NoFile]
    /\ dir = NoDir
    /\ manifest = NoManifest
    /\ ro = {}
    /\ out = <<>>
    /\ ret = "none"
    /\ hist = NoHist
    /\ run = NewRun(Flags(FALSE, TRUE, TRUE), FALSE, fs)
    /\ inp = <<>>
    /\ res = <<>>
NextRewrite == StartRun \/ GrubApply
SpecRewrite == InitRewrite /\ [][NextRewrite]_vars

\* a line that sets GRUB_CMDLINE_LINUX_DEFAULT
IsCmdlineLine(line) ==
    LET t == TrimSpace(line)
    IN  Len(t) >= 2 /\ t[1] = CmdlineKey /\ t[2] = "="

----------------------------------------------------------------------------
(* SSH hardening: SSHTuner.Run, called from the menu *)

MaxSSHRuns == 2   \* how many times "Secure SSH" is chosen from the menu

SshdPath == <<"etc", "ssh", "sshd_config">>

RootLoginNo == <<"PermitRootLogin", " ", "no">>
PasswordAuthNo == <<"PasswordAuthentication", " ", "no">>
AddedBy == <<"#", " ", "Added by vmware-tuner">>

\* strings.Contains(content, phrase) for a phrase of three atoms that holds
\* no newline
ContainsPhrase(content, phrase) ==
    \E i \in 1..Len(content) : \E j \in 1..Len(content[i]) :
        j + 2 <= Len(content[i]) /\ SubSeq(content[i], j, j + 2) = phrase

\* content += "\n# Added by vmware-tuner\n" + directive + "\n", on a file that
\* ends with a newline
Appended(content, directive) == content \o << <<>>, AddedBy, directive >>

\* a rollback that copies nothing back
cpNothing(fsv, d, name, p) == fsv

\* exec.Command("cp", backupPath, configPath).Run(): the copy, when the
\* backup file is there
cp(fsv, d, name, p) ==
    IF d.files[name].exists
    THEN [fsv EXCEPT ![p] = File(d.files[name].content,
                                IF @.exists THEN @.mode ELSE 420)]
    ELSE fsv

\* SSHTuner.Run.  rootYes, passwordYes and restartYes are the answers to the
\* three prompts, sshdOk the result of "sshd -t", bfault the I/O fault that
\* BackupFile meets.
SSHTunerRun(fsv, d, mf, rootYes, passwordYes, restartYes, sshdOk, bfault) ==
    LET step == Ev("PrintStep", "SSH Hardening")
        b == BackupFile(fsv, d, mf, SessionTimestamp, SshdPath, bfault)
        content == fsv[SshdPath].content
        askRoot == ~ContainsPhrase(content, RootLoginNo)
        c1 == IF askRoot /\ rootYes THEN Appended(content, RootLoginNo) ELSE content
        askPassword == ~ContainsPhrase(c1, PasswordAuthNo)
        c2 == IF askPassword /\ passwordYes THEN Appended(c1, PasswordAuthNo) ELSE c1
        changes == (askRoot /\ rootYes) \/ (askPassword /\ passwordYes)
        written == [fsv EXCEPT ![SshdPath] = File(c2, @.mode)]
        saved == [dir |-> b.dir, manifest |-> b.manifest]
    IN  IF ~fsv[SshdPath].exists
        THEN [fs |-> fsv, dir |-> d, manifest |-> mf, ret |-> "err",
              out |-> <<step>>]
        ELSE IF b.ret = "err"
        THEN saved @@ [fs |-> fsv, ret |-> "err", out |-> <<step>> \o b.out]
        ELSE IF ~changes
        THEN saved @@ [fs |-> fsv, ret |-> "nil",
                       out |-> <<step>> \o b.out
                               \o <<Ev("PrintInfo", "No changes made")>>]
        ELSE IF ~sshdOk
        THEN saved @@ [fs |-> cp(written, b.dir, Base(SshdPath), SshdPath),
                       ret |-> "err",
                       out |-> <<step>> \o b.out
                               \o <<Ev("write", "sshd_config"),
                                    Ev("exec", "sshd -t"),
                                    Ev("PrintError", "Configuration check FAILED"),
                                    Ev("exec", "cp")>>]
        ELSE saved @@ [fs |-> written, ret |-> "nil",
                       out |-> <<step>> \o b.out
                               \o <<Ev("write", "sshd_config"),
                                    Ev("exec", "sshd -t"),
                                    Ev("PrintSuccess", "Configuration syntax verified")>>
                               \o (IF restartYes
                                   THEN <<Ev("exec", "systemctl restart sshd")>>
                                   ELSE <<Ev("PrintInfo", "service not restarted")>>)]

\* sshd_config files: stock, with root login allowed, hardened in part and in
\* full, and with the directive in a comment
SshdFiles ==
    { << <<"Port", " ", "22">> >>,
      << <<"Port", " ", "22">>, <<"PermitRootLogin", " ", "yes">> >>,
      << <<"PermitRootLogin", " ", "no">>, <<"UsePAM", " ", "yes">> >>,
      << <<"#", "PermitRootLogin", " ", "no">> >>,
      << <<"PasswordAuthentication", " ", "no">> >>,
      << RootLoginNo, PasswordAuthNo >> }

\* the session directory of a new BackupManager, after Initialize
SshSessionDir ==
    [created |-> TRUE, files |-> [n \in {Base(SshdPath)} |-> NoFile]]

InitSSH ==
    /\ fs \in [{SshdPath} -> {NoFile} \cup {File(c, 384) : c \in SshdFiles}]
    /\ dir = [created |-> FALSE, files |-> [n \in {Base(SshdPath)} |-> NoFile]]
    /\ manifest = NoManifest
    /\ ro = {}
    /\ out = <<>>
    /\ ret = "none"
    /\ hist = NoHist
    /\ run = [n |-> 0, pre |-> fs, wrote |-> FALSE, sshdOk |-> FALSE]
    /\ inp = <<>>
    /\ res = <<>>

\* menu choice "Secure SSH": a new backup session, then SSHTuner.Run
SecureSSH ==
    /\ run.n < MaxSSHRuns
    /\ \E rootYes, passwordYes, restartYes, sshdOk \in BOOLEAN,
          bfault \in {"none"} \cup (IF fs[SshdPath].exists /\ run.n < MaxFaults
                                     THEN BackupFaults ELSE {}) :
          LET r == SSHTunerRun(fs, SshSessionDir, NoManifest, rootYes,
                               passwordYes, restartYes, sshdOk, bfault)
          IN  /\ fs' = r.fs
              /\ dir' = r.dir
              /\ manifest' = r.manifest
              /\ ret' = r.ret
              /\ out' = r.out
              /\ run' = [n |-> run.n + 1, pre |-> fs,
                         wrote |-> \E i \in 1..Len(r.out) : r.out[i][1] = "write",
                         sshdOk |-> sshdOk]
    /\ UNCHANGED <<ro, hist, inp, res>>

NextSSH == SecureSSH

SpecSSH == InitSSH /\ [][NextSSH]_vars

Restarted(o) == \E i \in 1..Len(o) : o[i] = Ev("exec", "systemctl restart sshd")

----------------------------------------------------------------------------
(* The disk expansion assistant, from its first prompt *)

\* an AskUser that takes every answer for a yes
AskUserAlways(answer) == TRUE

\* AskUser: the answer it accepts, in lower case and trimmed, is a yes
AskUser(answer) == answer \in {"y", "yes"}

Answers == {"y", "yes", "n", "no"}

\* DiskTuner.ExpandRoot.  answer is what the user replies to "Voulez-vous
\* continuer ?"; tool tells whether growpart is present, gets installed, or
\* cannot be installed; lsblk whether the report is produced and parsed.
ExpandRootAssistant(answer, tool, lsblk, devices, growpart, fsType) ==
    LET step == Ev("PrintStep", "Disk Expansion Assistant")
        install == IF tool = "present" \/ tool = "offline" THEN <<>>
                   ELSE <<Ev("exec", <<"install", "cloud-guest-utils">>)>>
    IN  IF ~AskUser(answer)
        THEN [ret |-> "nil", out |-> <<step, Ev("PrintInfo", "Operation annulee")>>]
        ELSE IF tool \in {"offline", "install failed"}
        THEN [ret |-> "err", out |-> <<step>> \o install]
        ELSE IF lsblk # "ok"
        THEN [ret |-> "err", out |-> <<step>> \o install \o <<Ev("exec", <<"lsblk", "-J">>)>>]
        ELSE LET r == ExpandRoot(devices, growpart, fsType)
             IN  [ret |-> r.ret,
                  out |-> <<step>> \o install \o <<Ev("exec", <<"lsblk", "-J">>)>> \o r.out]

\* the values of an input of ExpandRoot: all of them when the execution
\* reaches the step that reads it, one of them otherwise
Consulted(reached, values) ==
    IF reached THEN values ELSE {CHOOSE v \in values : TRUE}

\* SpecAssist: the assistant on the lsblk reports of SpecDisk that show one
\* top-level device
InitAssist == InitDisk /\ Len(inp) = 1

DoExpandDisk ==
    /\ run.pc = "call"
    /\ \E answer \in Answers :
       \E tool \in Consulted(AskUser(answer),
                             {"present", "installed", "offline", "install failed"}) :
       \E lsblk \in Consulted(AskUser(answer) /\ tool \in {"present", "installed"},
                              {"ok", "fail", "bad json"}) :
       \E growpart \in Consulted(AskUser(answer) /\ tool \in {"present", "installed"}
                                    /\ lsblk = "ok" /\ findRootInTree(inp).err = "",
                                 {"ok", "NOCHANGE", "fail"}) :
       \E fsType \in Consulted(AskUser(answer) /\ tool \in {"present", "installed"}
                                  /\ lsblk = "ok" /\ findRootInTree(inp).err = ""
                                  /\ growpart # "fail",
                               {"ext4", "xfs", "btrfs", ""}) :
          LET r == ExpandRootAssistant(answer, tool, lsblk, inp, growpart, fsType)
          IN  /\ res' = [answer |-> answer, lsblk |-> lsblk]
              /\ ret' = r.ret
              /\ out' = r.out
    /\ run' = [pc |-> "ret"]
    /\ UNCHANGED <<fs, dir, manifest, ro, hist, inp>>

NextAssist == DoExpandDisk

SpecAssist == InitAssist /\ [][NextAssist]_vars

\* the commands that change the disk, in the order they were run
Destructive(o) ==
    SelectSeq(o, LAMBDA e : /\ e[1] = "exec"
                            /\ e[2][1] \in {"growpart", "resize2fs", "xfs_growfs"})

\* C26: ExpandRoot has run growpart, resize2fs or xfs_growfs only if the user
\* answered yes and findRootInTree returned a disk and a partition index
\* without error.
C26_ConfirmedAndResolved ==
    (run.pc = "ret" /\ Destructive(out) # <<>>)
        => /\ res.answer \in {"y", "yes"}
           /\ res.lsblk = "ok"
           /\ findRootInTree(inp).err = ""
\* a confirmed expansion of an ext4 root on the first partition of a disk
C26_Witness ==
    /\ run.pc = "ret" /\ ret = "nil"
    /\ res.answer = "yes"
    /\ Len(Destructive(out)) = 2
    /\ Destructive(out)[2][2][1] = "resize2fs"
----------------------------------------------------------------------------
(* Detection of the hypervisor: IsVMware *)

MaxWords == 2   \* how many words a file under /sys or /proc holds
MaxCalls == 2   \* calls of IsVMware on the same tree

\* the words the files are made of; words next to each other leave no gap,
\* so that "VM" and "ware" spell "VMware"
DetectWords == {"VM", "ware", "vmware", "hyper", "visor", " "}

\* the characters of a word
Spell(w) ==
    CASE w = "VM" -> <<"V", "M">>
      [] w = "ware" -> <<"w", "a", "r", "e">>
      [] w = "vmware" -> <<"v", "m", "w", "a", "r", "e">>
      [] w = "hyper" -> <<"h", "y", "p", "e", "r">>
      [] w = "visor" -> <<"v", "i", "s", "o", "r">>
      [] w = "Physical" -> <<"P", "h", "y", "s", "i", "c", "a", "l">>
      [] w = "Machine" -> <<"M", "a", "c", "h", "i", "n", "e">>
      [] OTHER -> <<w>>

\* the characters of a text
Chars(text) == Concat([i \in 1..Len(text) |-> Spell(text[i])])

\* strings.Contains(s, substr), on characters
ContainsStr(s, substr) ==
    \E i \in 1..(Len(s) - Len(substr) + 1) :
        SubSeq(s, i, i + Len(substr) - 1) = substr

\* an IsVMware that looks at the DMI product name only
IsVMwareDmiOnly(dmi, cpuinfo) ==
    [isVM |-> dmi.exists /\ ContainsStr(Chars(dmi.content), Spell("VM") \o Spell("ware")),
     err |-> "nil"]

\* IsVMware(fsRoot): dmi and cpuinfo are the files product_name and cpuinfo
\* under fsRoot, which os.ReadFile reads when they exist
IsVMware(dmi, cpuinfo) ==
    LET VMware == Spell("VM") \o Spell("ware")
        hypervisor == Spell("hyper") \o Spell("visor")
    IN  IF dmi.exists /\ ContainsStr(Chars(dmi.content), VMware)
        THEN [isVM |-> TRUE, err |-> "nil"]
        ELSE IF /\ cpuinfo.exists
                /\ \/ ContainsStr(Chars(cpuinfo.content), VMware)
                   \/ ContainsStr(Chars(cpuinfo.content), hypervisor)
        THEN [isVM |-> TRUE, err |-> "nil"]
        ELSE [isVM |-> FALSE, err |-> "nil"]

DetectFiles == {NoFile} \cup {File(t, 420) : t \in SeqsUpTo(DetectWords, MaxWords)}

InitDetect ==
    /\ IdleStore
    /\ run = [pc |-> "call", n |-> 0]
    /\ inp \in [dmi : DetectFiles, cpuinfo : DetectFiles]
    /\ res = <<>>

DoIsVMware ==
    /\ run.pc = "call"
    /\ run.n < MaxCalls
    /\ res' = IsVMware(inp.dmi, inp.cpuinfo)
    /\ run' = [pc |-> "ret", n |-> run.n + 1]
    /\ UNCHANGED <<fs, dir, manifest, ro, out, ret, hist, inp>>

\* the test's second half: product_name is overwritten with the name of a
\* physical machine, and IsVMware is called again
OverwriteProductName ==
    /\ run.pc = "ret"
    /\ run.n < MaxCalls
    /\ inp' = [inp EXCEPT !.dmi = File(<<"Physical", " ", "Machine">>, 420)]
    /\ run' = [run EXCEPT !.pc = "call"]
    /\ UNCHANGED <<fs, dir, manifest, ro, out, ret, hist, res>>

NextDetect == DoIsVMware \/ OverwriteProductName

SpecDetect == InitDetect /\ [][NextDetect]_vars

\* the file is there and holds the word
Holds(file, word) == file.exists /\ ContainsStr(Chars(file.content), word)

\* C27: IsVMware returns true exactly when product_name holds "VMware" or
\* cpuinfo holds "VMware" or "hypervisor", and it never returns an error.
C27_Detection ==
    run.pc = "ret"
       => /\ res.err = "nil"
          /\ res.isVM <=> \/ Holds(inp.dmi, <<"V", "M", "w", "a", "r", "e">>)
                          \/ Holds(inp.cpuinfo, <<"V", "M", "w", "a", "r", "e">>)
                          \/ Holds(inp.cpuinfo, <<"h", "y", "p", "e", "r", "v", "i", "s", "o", "r">>)

\* after product_name was overwritten, IsVMware still says yes for the
\* "hypervisor" in cpuinfo
C27_Witness ==
    /\ run.pc = "ret" /\ run.n = 2
    /\ inp.dmi.content = <<"Physical", " ", "Machine">>
    /\ inp.cpuinfo.exists /\ inp.cpuinfo.content = <<"hyper", "visor">>
    /\ res.isVM
----------------------------------------------------------------------------
(* Backups of files that share a base name: the table of file systems of   *)
(* the machine and the one of a tree mounted under /mnt                    *)

MountedFstabPath == <<"mnt", "etc", "fstab">>

NamedPaths == {GrubPath, FstabPath, MountedFstabPath}

InitNames ==
    /\ \E present \in SUBSET NamedPaths :
          /\ FstabPath \in present
          /\ fs = [p \in NamedPaths |->
                      IF p \in present THEN File(Orig(p), 420) ELSE NoFile]
    /\ dir = NoDir
    /\ manifest = NoManifest
    /\ ro = {}
    /\ out = <<>>
    /\ ret = "none"
    /\ hist = [phase |-> "session", nb |-> 0]
    /\ run = NoRun
    /\ inp = <<>>
    /\ res = <<>>

InitializeNames ==
    /\ hist.phase = "session"
    /\ ~dir.created
    /\ dir' = InitializeDir(dir)
    /\ ret' = "nil"
    /\ out' = <<>>
    /\ UNCHANGED <<fs, manifest, ro, hist, run, inp, res>>

\* BackupFile(p) on any of the paths
BackupNamed(p) ==
    /\ hist.phase = "session"
    /\ hist.nb < MaxBackups
    /\ LET r == BackupFile(fs, dir, manifest, SessionTimestamp, p, "none")
       IN  /\ dir' = r.dir
           /\ manifest' = r.manifest
           /\ ret' = r.ret
           /\ out' = r.out
    /\ hist' = [hist EXCEPT !.nb = @ + 1]
    /\ inp' = p
    /\ UNCHANGED <<fs, ro, run, res>>

\* RestoreFromManifest on the session
RestoreNamed ==
    /\ hist.phase = "session"
    /\ LET r == RestoreFromManifest(fs, dir, manifest, {}, {})
       IN  /\ fs' = r.fs
           /\ ret' = r.ret
           /\ out' = r.out
    /\ hist' = [hist EXCEPT !.phase = "restored"]
    /\ UNCHANGED <<dir, manifest, ro, run, inp, res>>

NextNames ==
    \/ InitializeNames
    \/ \E p \in NamedPaths : BackupNamed(p)
    \/ RestoreNamed

SpecNames == InitNames /\ [][NextNames]_vars

\* C28: entries of the manifest for two distinct original paths never name
\* the same backup file.
C28_UniqueBackupNames ==
    \A i, j \in 1..Len(manifest.entries) :
        manifest.entries[i].original_path # manifest.entries[j].original_path
           => manifest.entries[i].backup_path # manifest.entries[j].backup_path

\* the consequence the uniqueness is there for: after a restore that
\* reported success, no path holds the bytes saved from another path
C28_RestoreOwnBytes ==
    (hist.phase = "restored" /\ ret = "nil")
       => \A p \in NamedPaths : fs[p].exists => fs[p].content = Orig(p)
----------------------------------------------------------------------------
(* The manifest as the ledger of a session: BackupFile calls that meet I/O *)
(* faults, with their argument on record, between the writes of a mutator  *)

LedgerFaults == BackupFaults \cup {"read"}

\* a BackupFile call; inp keeps the path it was given
BackupFileWith(p, fault) ==
    /\ fault = "read" => manifest.exists
    /\ BackupCall(p, fault)
    /\ inp' = p
    /\ UNCHANGED <<fs, ro, run, res>>

NextLedger ==
    \/ Initialize
    \/ \E p \in Paths, fault \in {"none"} \cup LedgerFaults : BackupFileWith(p, fault)
    \/ \E p \in Paths : EnvWrite(p)

SpecLedger == Init /\ [][NextLedger]_vars

\* C29: a BackupFile call keeps the entries the manifest had, unchanged and
\* in their order, at the front of the manifest, and keeps the session
\* timestamp.
C29_AppendOnly ==
    [][hist'.nb = hist.nb + 1
          => /\ IsPrefix(manifest.entries, manifest'.entries)
             /\ manifest.exists => manifest'.timestamp = manifest.timestamp]_vars

\* the same without I/O faults in the session
C29_AppendOnlyFaultFree ==
    [][(hist'.nb = hist.nb + 1 /\ hist'.nf = 0)
          => /\ IsPrefix(manifest.entries, manifest'.entries)
             /\ manifest.exists => manifest'.timestamp = manifest.timestamp]_vars

\* C30: when BackupFile(p) returns nil for a file that exists, the manifest
\* has an entry for p whose backup file is in the session directory.
C30_SuccessIsRestorable ==
    [][(hist'.nb = hist.nb + 1 /\ fs[inp'].exists /\ ret' = "nil")
          => \E i \in 1..Len(manifest'.entries) :
                /\ manifest'.entries[i].original_path = inp'
                /\ dir'.files[manifest'.entries[i].backup_path].exists]_vars
====
